---- MODULE Spec2Model ----
(***************************************************************************)
(* Order-item reconciliation of the amazonexport repository:               *)
(*   - GenerateCSVToshlStrategy.process   (price allocation per order)     *)
(*   - ScrapePricesStrategy.processShipmentElements (match and merge)      *)
(*                                                                         *)
(* JavaScript strings are sequences of one-character strings, so that      *)
(* trim, replace, includes and parseFloat are computed and not assumed.    *)
(* JavaScript numbers are fixed-point integers counting 1/Scale of a       *)
(* currency unit; a division rounds to the nearest multiple of 1/Scale,    *)
(* as an IEEE-754 division rounds to the nearest representable double.     *)
(***************************************************************************)
EXTENDS Integers, Sequences, FiniteSets, TLC

VARIABLES
  \* ---- GenerateCSVToshlStrategy.process ----
  orders,        \* the OrderDetails[] argument
  orderGroups,   \* groupItemsByOrder(orderItems): sequence of [orderId, items]
  records,       \* the records handed to csvWriter.writeRecords
  groupIdx,      \* number of entries of orderGroups already processed
  csvPc,         \* "idle", "collect", "allocate", "done"
  console,       \* what process wrote to the console: [level, text]
  ordersOut,     \* the OrderDetails[] the promise of process resolves to
  previousRuns,  \* the earlier calls of process: [input, output, records]
  unhandledRejections, \* per rejected promise of an async forEach callback,
                 \* the index in orders of the order it was called for
  \* ---- ScrapePricesStrategy.processShipmentElements ----
  order,         \* the OrderDetails argument: [orderId, items]
  originalItems, \* order.items as it was when the call started
  shipmentElements, \* the fragments, each the outcome of the DOM queries
  elemIdx,       \* number of fragments already processed by the for loop
  uniqueItems,   \* the Map: sequence of [key, ref], ref an index of order.items
  diagnostics,   \* entries appended by logDiagnostics in the for loop
  matched,       \* per processed fragment, the index of matchingOrderItem
                 \* in order.items, 0 when there is none
  returned,      \* the returned ItemDetails[]: the items are objects of
                 \* order.items, named by their index in order.items
  shipPc,        \* "idle", "loop", "done"
  \* ---- ScrapePricesStrategy.extractShipmentElements ----
  pageElements,  \* the elements of the parsed page, in document order
  selectorIdx,   \* number of shipmentSelectors the for loop has finished
  extracted,     \* the local shipmentElements: the strings pushed so far
  processedElements, \* the Set of the strings pushed so far
  pushedBy,      \* per string of extracted, the index of the selector whose
                 \* iteration pushed it
  pagePc,        \* "idle", "loop", "done"
  \* ---- one call of a public helper method ----
  call,          \* [fn, ...]: the method called and its arguments
  result,        \* the value returned
  callPc,        \* "idle", "called", "returned"
  today,         \* the date new Date() gives: [year, iso]
  \* ---- ScrapePricesStrategy.process ----
  batch,         \* the OrderDetails[] argument, as the call has changed it
  batchIn,       \* the OrderDetails[] argument as it was when the call started
  uniqueOrders,  \* the filtered orders, as indices of batch
  orderIdx,      \* number of uniqueOrders the for loop has finished
  visits,        \* per finished iteration [order, failed]: the index in batch
                 \* of the order navigated to, and the call that rejected
                 \* ("" when none did)
  errorLog,      \* the console.error calls of the catch block: [order, failed]
  batchOut,      \* the OrderDetails[] the promise of process resolves to
  batchPc,       \* "idle", "filter", "loop", "done"
  \* ---- exportOrders: OrderOrchestratorBuilder and OrderOrchestrator ----
  cacheFiles,    \* [details, prices]: the JSON text of each cache file, or
                 \* NoFile
  runNo,         \* the number of the current call of exportOrders
  force,         \* [orders, prices]: FORCE_SCRAPE_ORDERS, FORCE_SCRAPE_PRICES
  scrapeFlags,   \* [orders, prices]: the fields scrapeOrders and scrapePrices
  pageTracker,   \* [page, isLoggedIn]: a browser page is open, _isLoggedIn
  runLog,        \* what the current run did, in order
  orchOrders,    \* the local variable orders of orechestrate
  orchPc,        \* "idle", "build", "session", "orders", "prices", "return",
                 \* "returned", "failed"
  filesAtBuild,  \* cacheFiles as the builder of the current run found it
  wroteBoth,     \* some earlier run wrote both cache files
  \* ---- PocketSmithClient: one call of a splitting method ----
  psRemote,      \* the account at PocketSmith: [transactions, categories,
                 \* nextId]
  psRequests,    \* the HTTP requests issued so far: [method, path, ok]
  psCall,        \* [fn, transaction, orderItems, dryRun, deleteExisting]
  psIdx,         \* number of iterations the current for loop has finished
  psPc,          \* "idle", "delete", "find", "deleteLoop", "create",
                 \* "return", "returned", "rejected"
  psResult,      \* the local result: [deleted, created]
  categoryCache, \* the local categoryCache: sequence of [name, id]
  amazonTransactions, \* the local amazonTransactions of
                 \* processAmazonOrderItems
  dryRunResult,  \* what the dry run before the current call returned, <<>>
                 \* when there was none
  psFailure      \* the request that rejected the call: [request, item]

csvVars == <<orders, orderGroups, records, groupIdx, csvPc, console, ordersOut,
             previousRuns, unhandledRejections>>
shipVars == <<order, originalItems, shipmentElements, elemIdx, uniqueItems,
              diagnostics, matched, returned, shipPc>>
pageVars == <<pageElements, selectorIdx, extracted, processedElements,
              pushedBy, pagePc>>
callVars == <<call, result, callPc, today>>
batchVars == <<batch, batchIn, uniqueOrders, orderIdx, visits, errorLog, batchOut,
               batchPc>>
orchVars == <<cacheFiles, runNo, force, scrapeFlags, pageTracker, runLog,
              orchOrders, orchPc, filesAtBuild, wroteBoth>>
clientVars == <<psRemote, psRequests, psCall, psIdx, psPc, psResult,
                categoryCache, amazonTransactions, dryRunResult, psFailure>>
vars == <<orders, orderGroups, records, groupIdx, csvPc, console, ordersOut,
          previousRuns, unhandledRejections,
          order, originalItems, shipmentElements, elemIdx, uniqueItems,
          diagnostics, matched, returned, shipPc,
          pageElements, selectorIdx, extracted, processedElements, pushedBy,
          pagePc, call, result, callPc, today,
          batch, batchIn, uniqueOrders, orderIdx, visits, errorLog, batchOut,
          batchPc,
          cacheFiles, runNo, force, scrapeFlags, pageTracker, runLog,
          orchOrders, orchPc, filesAtBuild, wroteBoth,
          psRemote, psRequests, psCall, psIdx, psPc, psResult,
          categoryCache, amazonTransactions, dryRunResult, psFailure>>

-----------------------------------------------------------------------------
(* JavaScript values                                                       *)

\* undefined and null: tuples no string can equal (a string holds
\* one-character elements only)
undefined == <<"<undefined>">>
null == <<"<null>">>

Digits == {"0", "1", "2", "3", "4", "5", "6", "7", "8", "9"}

DigitVal(c) ==
  CASE c = "0" -> 0 [] c = "1" -> 1 [] c = "2" -> 2 [] c = "3" -> 3
    [] c = "4" -> 4 [] c = "5" -> 5 [] c = "6" -> 6 [] c = "7" -> 7
    [] c = "8" -> 8 [] c = "9" -> 9

\* fixed-point unit: a number n stands for n / Scale
Scale == 10 * 10 * 10

\* nearest integer to n / d, d > 0
RoundDiv(n, d) == (2 * n + d) \div (2 * d)

\* a * b on fixed-point numbers
Times(a, b) == RoundDiv(a * b, Scale)

\* a / k on fixed-point numbers, k a count
DivideBy(a, k) == RoundDiv(a, k)

Max(a, b) == IF a >= b THEN a ELSE b

Abs(a) == IF a >= 0 THEN a ELSE 0 - a

\* truthiness of a string | undefined | null value
Truthy(s) == s # undefined /\ s # null /\ s # <<>>

RECURSIVE LeadingSpaces(_)
LeadingSpaces(s) ==
  IF s # <<>> /\ Head(s) = " " THEN 1 + LeadingSpaces(Tail(s)) ELSE 0

RECURSIVE TrailingSpaces(_)
TrailingSpaces(s) ==
  IF s # <<>> /\ s[Len(s)] = " "
  THEN 1 + TrailingSpaces(SubSeq(s, 1, Len(s) - 1)) ELSE 0

\* String.prototype.trim
trim(s) ==
  IF LeadingSpaces(s) = Len(s) THEN <<>>
  ELSE SubSeq(s, 1 + LeadingSpaces(s), Len(s) - TrailingSpaces(s))

\* String.prototype.includes
includes(s, t) ==
  \E i \in 0..(Len(s) - Len(t)) : SubSeq(s, i + 1, i + Len(t)) = t

\* s.replace(/[^\d,.-]/g, '')
StripNonNumeric(s) == SelectSeq(s, LAMBDA c : c \in Digits \cup {",", ".", "-"})

\* s.replace(',', '.'): the first comma only
RECURSIVE ReplaceFirstComma(_)
ReplaceFirstComma(s) ==
  IF s = <<>> THEN <<>>
  ELSE IF Head(s) = "," THEN <<".">> \o Tail(s)
  ELSE <<Head(s)>> \o ReplaceFirstComma(Tail(s))

RECURSIVE DigitPrefixLen(_)
DigitPrefixLen(s) ==
  IF s # <<>> /\ Head(s) \in Digits THEN 1 + DigitPrefixLen(Tail(s)) ELSE 0

RECURSIVE DigitsValue(_)
DigitsValue(s) ==
  IF s = <<>> THEN 0
  ELSE 10 * DigitsValue(SubSeq(s, 1, Len(s) - 1)) + DigitVal(s[Len(s)])

\* value of the fraction digits in 1/Scale, rounded on the fourth digit
FractionValue(f) ==
  LET d(i) == IF i <= Len(f) THEN DigitVal(f[i]) ELSE 0
  IN  100 * d(1) + 10 * d(2) + d(3) + (IF d(4) >= 5 THEN 1 ELSE 0)

NaN == [isNaN |-> TRUE, value |-> 0]

Number(n) == [isNaN |-> FALSE, value |-> n]

\* parseFloat on a string of digits, commas, periods and minus signs: an
\* optional sign, digits, an optional period and digits; the longest such
\* prefix is the number, NaN when it holds no digit
parseFloat(s) ==
  LET neg == s # <<>> /\ Head(s) = "-"
      body == IF neg THEN Tail(s) ELSE s
      nInt == DigitPrefixLen(body)
      afterInt == SubSeq(body, nInt + 1, Len(body))
      hasDot == afterInt # <<>> /\ Head(afterInt) = "."
      nFrac == IF hasDot THEN DigitPrefixLen(Tail(afterInt)) ELSE 0
      mag == DigitsValue(SubSeq(body, 1, nInt)) * Scale
             + FractionValue(SubSeq(body, nInt + 2, nInt + 1 + nFrac))
  IN  IF nInt + nFrac = 0 THEN NaN
      ELSE IF neg THEN Number(0 - mag) ELSE Number(mag)

\* GenerateCSVToshlStrategy.parseInt
parseInt(moneyStr) ==
  IF ~Truthy(moneyStr) THEN 0
  ELSE LET cleanedStr == ReplaceFirstComma(StripNonNumeric(moneyStr))
           moneyValue == parseFloat(cleanedStr)
       IN  IF moneyValue.isNaN THEN 0 ELSE moneyValue.value

-----------------------------------------------------------------------------
(* GenerateCSVToshlStrategy.process                                        *)

RECURSIVE SumSeq(_)
SumSeq(s) == IF s = <<>> THEN 0 ELSE Head(s) + SumSeq(Tail(s))

\* the OrderItemDetails pushed for one item of one order
OrderItem(o, item) ==
  [orderId |-> trim(o.orderId),
   orderTotal |-> trim(o.orderTotal),
   itemTitle |-> item.title,
   itemPrice |-> item.price,
   itemQty |-> item.qty,
   itemProductId |-> item.productId]

\* lines 26-30: x.trim() throws a TypeError when the field is missing
trimThrows(o) == o.orderId = undefined \/ o.orderTotal = undefined

\* orders.forEach(order => order.items.forEach(item => orderItems.push(..))):
\* the callbacks are async, so an item callback that throws pushes nothing
\* and returns a rejected promise, which forEach drops
RECURSIVE collectOrderItems(_)
collectOrderItems(os) ==
  IF os = <<>> THEN <<>>
  ELSE IF trimThrows(Head(os)) THEN collectOrderItems(Tail(os))
  ELSE [i \in 1..Len(Head(os).items) |-> OrderItem(Head(os), Head(os).items[i])]
       \o collectOrderItems(Tail(os))

\* the promises rejected in that pass, one per item of an order whose
\* callback throws, named by the index of the order (o, o + 1, ...)
RECURSIVE rejectedCallbacks(_, _)
rejectedCallbacks(os, o) ==
  IF os = <<>> THEN <<>>
  ELSE (IF trimThrows(Head(os)) THEN [i \in 1..Len(Head(os).items) |-> o]
        ELSE <<>>)
       \o rejectedCallbacks(Tail(os), o + 1)

\* groups[item.orderId].push(item), on the entries in insertion order
pushToGroup(groups, item) ==
  IF \E g \in 1..Len(groups) : groups[g].orderId = item.orderId
  THEN [g \in 1..Len(groups) |->
          IF groups[g].orderId = item.orderId
          THEN [groups[g] EXCEPT !.items = Append(@, item)]
          ELSE groups[g]]
  ELSE Append(groups, [orderId |-> item.orderId, items |-> <<item>>])

RECURSIVE groupItemsInto(_, _)
groupItemsInto(groups, orderItems) ==
  IF orderItems = <<>> THEN groups
  ELSE groupItemsInto(pushToGroup(groups, Head(orderItems)), Tail(orderItems))

groupItemsByOrder(orderItems) == groupItemsInto(<<>>, orderItems)

itemsWithPrices(items) == SelectSeq(items, LAMBDA it : it.itemPrice # undefined)

itemsWithoutPrices(items) == SelectSeq(items, LAMBDA it : it.itemPrice = undefined)

\* the reduce over itemsWithPrices, sum and term order kept
knownPricesTotal_noQty(priced) ==
  SumSeq([i \in 1..Len(priced) |-> parseInt(priced[i].itemPrice)])

knownPricesTotal(priced) ==
  SumSeq([i \in 1..Len(priced) |->
            Times(parseInt(priced[i].itemQty), parseInt(priced[i].itemPrice))])

remainingAmount(orderTotal, known) == Max(0, orderTotal - known)

\* the amount of the i-th (0-based) item without price
itemAmount_allEven(i, count, remaining, distributedAmount) ==
  DivideBy(remaining, count)

itemAmount(i, count, remaining, distributedAmount) ==
  IF i = count - 1 THEN remaining - distributedAmount
  ELSE DivideBy(remaining, count)

createCsvRecord(item, itemPrice, orderTotal) ==
  [item |-> item,      \* itemDescription holds item.itemTitle and item.orderId
   itemPrice |-> itemPrice,
   itemQty |-> parseInt(item.itemQty),
   currency |-> "EUR",
   orderTotal |-> orderTotal]

\* the second for loop of one group, from index i on
RECURSIVE distributeLoop(_, _, _, _, _)
distributeLoop(i, unpriced, remaining, distributedAmount, orderTotal) ==
  IF i >= Len(unpriced) THEN <<>>
  ELSE LET amount == itemAmount(i, Len(unpriced), remaining, distributedAmount)
           distributed == IF i = Len(unpriced) - 1 THEN distributedAmount
                          ELSE distributedAmount + amount
       IN  <<createCsvRecord(unpriced[i + 1], amount, orderTotal)>>
           \o distributeLoop(i + 1, unpriced, remaining, distributed, orderTotal)

\* the records one iteration of "for (const [orderId, items] of ...)" pushes
groupRecords(items) ==
  LET orderTotal == parseInt(items[1].orderTotal)
      priced == itemsWithPrices(items)
      known == knownPricesTotal(priced)
      unpriced == itemsWithoutPrices(items)
      remaining == remainingAmount(orderTotal, known)
  IN  [i \in 1..Len(priced) |->
         createCsvRecord(priced[i],
                         Times(parseInt(priced[i].itemPrice),
                               parseInt(priced[i].itemQty)),
                         orderTotal)]
      \o distributeLoop(0, unpriced, remaining, 0, orderTotal)

-----------------------------------------------------------------------------
(* ScrapePricesStrategy: field extraction from one fragment                *)

UpperLetters ==
  {"A", "B", "C", "D", "E", "F", "G", "H", "I", "J", "K", "L", "M",
   "N", "O", "P", "Q", "R", "S", "T", "U", "V", "W", "X", "Y", "Z"}

startsWith(s, p) == Len(s) >= Len(p) /\ SubSeq(s, 1, Len(p)) = p

\* length of the prefix of s holding none of the characters of stop
RECURSIVE PrefixLenUntil(_, _)
PrefixLenUntil(s, stop) ==
  IF s = <<>> \/ Head(s) \in stop THEN 0
  ELSE 1 + PrefixLenUntil(Tail(s), stop)

\* String.prototype.split on a one-character separator
RECURSIVE split(_, _)
split(s, sep) ==
  LET n == PrefixLenUntil(s, {sep})
  IN  IF n = Len(s) THEN <<s>>
      ELSE <<SubSeq(s, 1, n)>> \o split(SubSeq(s, n + 2, Len(s)), sep)

\* array[i] with a 0-based index: undefined outside the array
At(array, i) == IF i >= 0 /\ i < Len(array) THEN array[i + 1] ELSE undefined

\* Array.prototype.indexOf, 0-based, -1 when absent
indexOf(array, x) ==
  IF \E i \in 1..Len(array) : array[i] = x
  THEN (CHOOSE i \in 1..Len(array) :
          array[i] = x /\ \A j \in 1..(i - 1) : array[j] # x) - 1
  ELSE 0 - 1

\* Array.prototype.find: the first element whose test holds, else undefined;
\* holds[i] is the outcome of the callback on array[i]
find(array, holds) ==
  IF \E i \in 1..Len(array) : holds[i]
  THEN array[CHOOSE i \in 1..Len(array) :
               holds[i] /\ \A j \in 1..(i - 1) : ~holds[j]]
  ELSE undefined

HttpPrefix == <<"h", "t", "t", "p">>
HttpScheme == <<"h", "t", "t", "p", ":", "/", "/">>
HttpsScheme == <<"h", "t", "t", "p", "s", ":", "/", "/">>
BaseOrigin ==
  HttpsScheme \o <<"w", "w", "w", ".", "a", "m", "a", "z", "o", "n", ".",
                   "c", "o", "m", ".", "b", "e">>

\* new URL(fullUrl) for http(s) URLs: [ok, pathname, search]; ok is FALSE
\* where the constructor throws (no http(s) scheme, or an empty host)
URL(fullUrl) ==
  LET rest == IF startsWith(fullUrl, HttpsScheme)
              THEN SubSeq(fullUrl, Len(HttpsScheme) + 1, Len(fullUrl))
              ELSE SubSeq(fullUrl, Len(HttpScheme) + 1, Len(fullUrl))
      nHost == PrefixLenUntil(rest, {"/", "?", "#"})
      afterHost == SubSeq(rest, nHost + 1, Len(rest))
      nPath == PrefixLenUntil(afterHost, {"?", "#"})
      afterPath == SubSeq(afterHost, nPath + 1, Len(afterHost))
      nSearch == IF afterPath # <<>> /\ Head(afterPath) = "?"
                 THEN PrefixLenUntil(Tail(afterPath), {"#"}) ELSE 0
  IN  IF ~(startsWith(fullUrl, HttpsScheme) \/ startsWith(fullUrl, HttpScheme))
         \/ nHost = 0
      THEN [ok |-> FALSE, pathname |-> <<>>, search |-> <<>>]
      ELSE [ok |-> TRUE,
            pathname |-> IF nPath = 0 THEN <<"/">> ELSE SubSeq(afterHost, 1, nPath),
            search |-> IF nSearch = 0 THEN <<>>
                       ELSE SubSeq(afterPath, 2, 1 + nSearch)]

\* url.searchParams.get(name): the value of the first pair named name
searchParamsGet(search, name) ==
  LET pairs == split(search, "&")
      key(pr) == SubSeq(pr, 1, PrefixLenUntil(pr, {"="}))
      value(pr) == SubSeq(pr, PrefixLenUntil(pr, {"="}) + 2, Len(pr))
      hit == find(pairs, [i \in 1..Len(pairs) |-> key(pairs[i]) = name])
  IN  IF search = <<>> \/ hit = undefined THEN null ELSE value(hit)

ProductIdParam == <<"p", "r", "o", "d", "u", "c", "t", "I", "d">>
ProductToken == <<"p", "r", "o", "d", "u", "c", "t">>
DpToken == <<"d", "p">>

\* /^[A-Z0-9]+$/ and /^[A-Z0-9]{10,}$/
IsUpperAlnum(s) ==
  /\ s # <<>>
  /\ \A i \in 1..Len(s) : s[i] \in UpperLetters \cup Digits

IsUpperAlnum10(s) == IsUpperAlnum(s) /\ Len(s) >= 10

\* line 314: validProductId ?? null
productIdOrNull(id) == IF id = undefined THEN null ELSE id

\* lines 298-304: the candidates in the order tried
productIdCandidates(url, pathParts) ==
  << searchParamsGet(url.search, ProductIdParam),
     At(pathParts, indexOf(pathParts, DpToken) + 1),
     find(pathParts, [i \in 1..Len(pathParts) |-> IsUpperAlnum10(pathParts[i])]),
     At(pathParts, 3),
     At(pathParts, 4) >>

\* lines 306-311: the test a candidate must pass
isValidProductId(id) ==
  /\ Truthy(id)
  /\ id # ProductToken
  /\ id # DpToken
  /\ IsUpperAlnum(id)

\* lines 306-311: the first candidate that passes
validProductId(candidates) ==
  find(candidates, [i \in 1..Len(candidates) |-> isValidProductId(candidates[i])])

\* lines 294-319: new URL throwing is caught and gives null; else the first
\* valid candidate of the path and the query
productIdOfUrl(url) ==
  IF ~url.ok THEN null
  ELSE productIdOrNull(
         validProductId(
           productIdCandidates(url, SelectSeq(split(url.pathname, "/"),
                                              LAMBDA part : part # <<>>))))

\* ScrapePricesStrategy.extractProductIdFromUrl
extractProductIdFromUrl(itemUri) ==
  IF ~Truthy(itemUri) THEN null
  ELSE productIdOfUrl(URL(IF startsWith(itemUri, HttpPrefix) THEN itemUri
                          ELSE BaseOrigin \o itemUri))

\* body.querySelector(selector): the first element the selector matches in
\* the fragment, NoElement for null; an element is [sel, text, href] with
\* text its textContent and href its href attribute (null when it has none)
NoElement == [sel |-> "", text |-> <<>>, href |-> null]

querySelector(body, selector) ==
  IF \E el \in body : el.sel = selector
  THEN CHOOSE el \in body : el.sel = selector
  ELSE NoElement

priceSelectors ==
  << ".a-price-whole", ".a-price-fraction", ".a-offscreen", ".a-color-price",
     "[data-component=unitPrice] .a-text-price", ".yohtmlc-item .a-color-price",
     ".item-price", ".a-price .a-offscreen" >>

itemLinkSelectors ==
  << ".yohtmlc-item .a-link-normal", "[data-component=itemTitle] .a-link-normal",
     ".a-link-normal", "a[href*=/dp/]", "a[href*=/product/]", ".product-image a" >>

qtySelectors == << ".product-image__qty", ".a-badge-text", ".item-quantity" >>

titleSelectors ==
  << ".yohtmlc-product-title", "[data-component=itemTitle]",
     ".a-link-normal .a-text-bold" >>

\* ScrapePricesStrategy.extractPrice
RECURSIVE extractPrice_firstPresent(_, _)
extractPrice_firstPresent(body, selectors) ==
  IF selectors = <<>> THEN undefined
  ELSE IF querySelector(body, Head(selectors)) # NoElement
  THEN trim(querySelector(body, Head(selectors)).text)
  ELSE extractPrice_firstPresent(body, Tail(selectors))

RECURSIVE extractPrice(_, _)
extractPrice(body, selectors) ==
  IF selectors = <<>> THEN undefined
  ELSE LET priceElement == querySelector(body, Head(selectors))
       IN  IF priceElement # NoElement /\ Truthy(trim(priceElement.text))
           THEN trim(priceElement.text)
           ELSE extractPrice(body, Tail(selectors))

\* lines 77-91: the loop over itemLinkSelectors
RECURSIVE itemLinkLoop(_, _, _, _)
itemLinkLoop(body, selectors, itemLink, itemTitle) ==
  IF selectors = <<>>
  THEN [itemLink |-> itemLink, productId |-> null, itemTitle |-> itemTitle]
  ELSE LET linkElement == querySelector(body, Head(selectors))
       IN  IF linkElement = NoElement
           THEN itemLinkLoop(body, Tail(selectors), itemLink, itemTitle)
           ELSE IF Truthy(linkElement.href)
           THEN [itemLink |-> linkElement.href,
                 productId |-> extractProductIdFromUrl(linkElement.href),
                 itemTitle |-> trim(linkElement.text)]
           ELSE itemLinkLoop(body, Tail(selectors), linkElement.href,
                             trim(linkElement.text))

\* lines 93-106: the loop over qtySelectors
RECURSIVE extractQty(_, _)
extractQty(body, selectors) ==
  IF selectors = <<>> THEN <<"1">>
  ELSE LET qtyElement == querySelector(body, Head(selectors))
       IN  IF qtyElement # NoElement THEN trim(qtyElement.text)
           ELSE extractQty(body, Tail(selectors))

\* lines 108-123: the loop over titleSelectors, entered when !itemTitle
RECURSIVE titleLoop(_, _, _)
titleLoop(body, selectors, itemTitle) ==
  IF selectors = <<>> THEN itemTitle
  ELSE LET titleElement == querySelector(body, Head(selectors))
       IN  IF titleElement = NoElement THEN titleLoop(body, Tail(selectors), itemTitle)
           ELSE IF Truthy(trim(titleElement.text)) THEN trim(titleElement.text)
           ELSE titleLoop(body, Tail(selectors), trim(titleElement.text))

\* lines 108-133: the fields of one fragment once the link loop has run; the
\* title loop is entered only when the link left no title
fieldsAfterLink(body, link) ==
  [extractedPrice |-> extractPrice(body, priceSelectors),
   itemLink |-> link.itemLink,
   productId |-> link.productId,
   itemTitle |-> IF Truthy(link.itemTitle) THEN link.itemTitle
                 ELSE titleLoop(body, titleSelectors, link.itemTitle),
   itemQty |-> extractQty(body, qtySelectors)]

\* lines 50-133: the four fields extracted from one fragment body
extractFields(body) ==
  fieldsAfterLink(body, itemLinkLoop(body, itemLinkSelectors, null, undefined))

-----------------------------------------------------------------------------
(* ScrapePricesStrategy.processShipmentElements: match and merge           *)

\* the predicate of order.items.find (lines 137-140)
matchesOrderItem(item, productId, itemTitle) ==
  \/ /\ Truthy(productId)
     /\ item.productId # undefined
     /\ trim(item.productId) = trim(productId)
  \/ /\ Truthy(itemTitle)
     /\ Truthy(item.title)
     /\ includes(item.title, itemTitle)

\* the index in items of matchingOrderItem, 0 for undefined
matchingOrderItem(items, productId, itemTitle) ==
  IF \E i \in 1..Len(items) : matchesOrderItem(items[i], productId, itemTitle)
  THEN CHOOSE i \in 1..Len(items) :
         /\ matchesOrderItem(items[i], productId, itemTitle)
         /\ \A j \in 1..(i - 1) : ~matchesOrderItem(items[j], productId, itemTitle)
  ELSE 0

\* Map.has, Map.get (the index of the item held) and Map.set
has(map, key) == \E i \in 1..Len(map) : map[i].key = key

get(map, key) == map[CHOOSE i \in 1..Len(map) : map[i].key = key].ref

set(map, key, ref) ==
  IF has(map, key)
  THEN [i \in 1..Len(map) |->
          IF map[i].key = key THEN [key |-> key, ref |-> ref] ELSE map[i]]
  ELSE Append(map, [key |-> key, ref |-> ref])

\* lines 142-161, m > 0 the index of matchingOrderItem: the items and the
\* Map after the merge
mergeMatch_alwaysOverwrite(items, map, m, extractedPrice, itemQty) ==
  LET itemKey == items[m].title
  IN  IF has(map, itemKey) /\ Truthy(extractedPrice)
      THEN [items |-> [items EXCEPT ![get(map, itemKey)].price = extractedPrice],
            map |-> map]
      ELSE IF ~has(map, itemKey)
      THEN [items |-> [items EXCEPT
                         ![m].price = IF extractedPrice # undefined
                                      THEN extractedPrice ELSE @,
                         ![m].qty = itemQty],
            map |-> set(map, itemKey, m)]
      ELSE [items |-> items, map |-> map]

mergeMatch_insertOnly(items, map, m, extractedPrice, itemQty) ==
  LET itemKey == items[m].title
  IN  IF ~has(map, itemKey)
      THEN [items |-> [items EXCEPT
                         ![m].price = IF extractedPrice # undefined
                                      THEN extractedPrice ELSE @,
                         ![m].qty = itemQty],
            map |-> set(map, itemKey, m)]
      ELSE [items |-> items, map |-> map]

mergeMatch(items, map, m, extractedPrice, itemQty) ==
  LET itemKey == items[m].title
  IN  IF \/ ~has(map, itemKey)
         \/ (~Truthy(items[get(map, itemKey)].price) /\ Truthy(extractedPrice))
      THEN IF has(map, itemKey) /\ Truthy(extractedPrice)
           THEN [items |-> [items EXCEPT ![get(map, itemKey)].price = extractedPrice],
                 map |-> set(map, itemKey, get(map, itemKey))]
           ELSE [items |-> [items EXCEPT
                              ![m].price = IF extractedPrice # undefined
                                           THEN extractedPrice ELSE @,
                              ![m].qty = itemQty],
                 map |-> set(map, itemKey, m)]
      ELSE [items |-> items, map |-> map]

\* lines 175-180: the items returned, as indices of order.items
returnedItems_noFallback(map, items) == [i \in 1..Len(map) |-> map[i].ref]

returnedItems(map, items) ==
  IF Len(map) > 0 THEN [i \in 1..Len(map) |-> map[i].ref]
  ELSE [i \in 1..Len(items) |-> i]

\* the log entries of one fragment
ExtractionEntry(e, fields) ==
  [kind |-> "extraction", elem |-> e, productId |-> fields.productId,
   itemTitle |-> fields.itemTitle, itemQty |-> fields.itemQty]

NoMatchEntry(e, fields) ==
  [kind |-> "no-match", elem |-> e, productId |-> fields.productId,
   itemTitle |-> fields.itemTitle]

ErrorEntry(e) ==
  [kind |-> "error", elem |-> e, productId |-> null, itemTitle |-> undefined]

-----------------------------------------------------------------------------
(* The batches given to GenerateCSVToshlStrategy.process                   *)

MaxCsvItems == 3

Id1 == <<"4", "0", "5", "-", "1">>
Id2 == <<"4", "0", "5", "-", "2">>

CsvTitle == <<"s", "o", "k">>
CsvProductId == <<"B", "0", "1">>

CsvTotals ==
  { <<"€", " ", "3", "1", ",", "0", "0">>,     \* 31.00
    <<"€", " ", "5", "6", ",", "8", "1">>,     \* 56.81
    <<" ", "1", "0", " ">> }                   \* 10

CsvPrices ==
  { undefined,
    <<"€", "2", "2", ",", "9", "9">>,          \* 22.99
    <<"4", "0">>,                              \* 40
    <<"-", "5", ",", "0", "0">> }              \* -5.00

CsvItem(price, qty) ==
  [title |-> CsvTitle, price |-> price, qty |-> qty, productId |-> CsvProductId]

CsvItemPool ==
  { CsvItem(p, <<"1">>) : p \in CsvPrices }
  \cup { CsvItem(undefined, <<"2">>),
         CsvItem(<<"€", "2", "2", ",", "9", "9">>, <<"2">>) }

SeqsUpTo(S, n) == UNION { [1..k -> S] : k \in 0..n }

CsvOrder(id, total, items) == [orderId |-> id, orderTotal |-> total, items |-> items]

\* the order under study: any total, any mix of up to MaxCsvItems items
CsvMainOrders ==
  { CsvOrder(Id1, t, its) : t \in CsvTotals, its \in SeqsUpTo(CsvItemPool, MaxCsvItems) }

\* the other order of the batch: another order, or a repeat of the orderId
CsvSiblingOrders ==
  { CsvOrder(Id2, <<" ", "1", "0", " ">>, <<CsvItem(undefined, <<"1">>)>>),
    CsvOrder(Id2, undefined, <<CsvItem(undefined, <<"1">>), CsvItem(<<"4", "0">>, <<"1">>)>>),
    CsvOrder(Id2, <<"€", " ", "3", "1", ",", "0", "0">>, <<>>),
    CsvOrder(Id1, <<"€", " ", "3", "1", ",", "0", "0">>,
             <<CsvItem(undefined, <<"1">>)>>) }

CsvBatches ==
  { <<m>> : m \in CsvMainOrders }
  \cup { <<m, o>> : m \in CsvMainOrders, o \in CsvSiblingOrders }
  \cup { <<o, m>> : m \in CsvMainOrders, o \in CsvSiblingOrders }

ShipIdle ==
  /\ order = [orderId |-> <<>>, items |-> <<>>]
  /\ originalItems = <<>>
  /\ shipmentElements = <<>>
  /\ elemIdx = 0
  /\ uniqueItems = <<>>
  /\ diagnostics = <<>>
  /\ matched = <<>>
  /\ returned = <<>>
  /\ shipPc = "idle"

PageIdle ==
  /\ pageElements = <<>>
  /\ selectorIdx = 0
  /\ extracted = <<>>
  /\ processedElements = {}
  /\ pushedBy = <<>>
  /\ pagePc = "idle"

CallIdle ==
  /\ call = [fn |-> "none"]
  /\ result = <<>>
  /\ callPc = "idle"
  /\ today = [year |-> <<>>, iso |-> <<>>]

NoFile == [exists |-> FALSE, content |-> <<>>]

File(content) == [exists |-> TRUE, content |-> content]

NoTransaction == [id |-> 0, payee |-> <<>>, note |-> <<>>]

ClientIdle ==
  /\ psRemote = [transactions |-> <<>>, categories |-> <<>>, nextId |-> 1]
  /\ psRequests = <<>>
  /\ psCall = [fn |-> "", transaction |-> NoTransaction, orderItems |-> <<>>,
               dryRun |-> FALSE, deleteExisting |-> FALSE]
  /\ psIdx = 0
  /\ psPc = "idle"
  /\ psResult = [deleted |-> 0, created |-> 0]
  /\ categoryCache = <<>>
  /\ amazonTransactions = <<>>
  /\ dryRunResult = <<>>
  /\ psFailure = [request |-> "", item |-> 0]

OrchIdle ==
  /\ cacheFiles = [details |-> NoFile, prices |-> NoFile]
  /\ runNo = 0
  /\ force = [orders |-> FALSE, prices |-> FALSE]
  /\ scrapeFlags = [orders |-> FALSE, prices |-> FALSE]
  /\ pageTracker = [page |-> FALSE, isLoggedIn |-> FALSE]
  /\ runLog = <<>>
  /\ orchOrders = <<>>
  /\ orchPc = "idle"
  /\ filesAtBuild = [details |-> NoFile, prices |-> NoFile]
  /\ wroteBoth = FALSE

BatchIdle ==
  /\ batch = <<>>
  /\ batchIn = <<>>
  /\ uniqueOrders = <<>>
  /\ orderIdx = 0
  /\ visits = <<>>
  /\ errorLog = <<>>
  /\ batchOut = <<>>
  /\ batchPc = "idle"

CsvIdle ==
  /\ orders = <<>>
  /\ orderGroups = <<>>
  /\ records = <<>>
  /\ groupIdx = 0
  /\ csvPc = "idle"
  /\ console = <<>>
  /\ ordersOut = <<>>
  /\ previousRuns = <<>>
  /\ unhandledRejections = <<>>

CsvInit ==
  /\ orders \in CsvBatches
  /\ orderGroups = <<>>
  /\ records = <<>>
  /\ groupIdx = 0
  /\ csvPc = "collect"
  /\ console = <<>>
  /\ ordersOut = <<>>
  /\ previousRuns = <<>>
  /\ unhandledRejections = <<>>
  /\ ShipIdle
  /\ PageIdle
  /\ CallIdle
  /\ BatchIdle
  /\ OrchIdle
  /\ ClientIdle

\* console.log(...): process and its helpers write at this one level
Log(text) == [level |-> "log", text |-> text]

\* line 107, return orders: the argument itself, no item of it written to
returnedOrders_unitQty(os) ==
  [o \in 1..Len(os) |->
     [os[o] EXCEPT !.items = [i \in 1..Len(os[o].items) |->
                                [os[o].items[i] EXCEPT !.qty = <<"1">>]]]]

returnedOrders(os) == os

\* lines 21-59: flatten the orders into orderItems and group them
CsvCollect ==
  /\ csvPc = "collect"
  /\ orderGroups' = groupItemsByOrder(collectOrderItems(orders))
  /\ unhandledRejections' = rejectedCallbacks(orders, 1)
  /\ console' = Append(console, Log("orderItems"))
  /\ csvPc' = "allocate"
  /\ UNCHANGED <<orders, records, groupIdx, ordersOut, previousRuns>>
  /\ UNCHANGED <<shipVars, pageVars, callVars, batchVars, orchVars, clientVars>>

\* lines 63-102: one iteration of the loop over Object.entries(orderGroups)
CsvAllocateGroup ==
  /\ csvPc = "allocate"
  /\ groupIdx < Len(orderGroups)
  /\ records' = records \o groupRecords(orderGroups[groupIdx + 1].items)
  /\ groupIdx' = groupIdx + 1
  /\ UNCHANGED <<orders, orderGroups, csvPc, console, ordersOut, previousRuns,
                 unhandledRejections>>
  /\ UNCHANGED <<shipVars, pageVars, callVars, batchVars, orchVars, clientVars>>

\* lines 104-107: csvWriter.writeRecords(records); return orders
CsvWriteRecords ==
  /\ csvPc = "allocate"
  /\ groupIdx = Len(orderGroups)
  /\ console' = console \o <<Log("CSV file written successfully"),
                              Log("Generating CSV for orders")>>
  /\ ordersOut' = returnedOrders(orders)
  /\ csvPc' = "done"
  /\ UNCHANGED <<orders, orderGroups, records, groupIdx, previousRuns,
                 unhandledRejections>>
  /\ UNCHANGED <<shipVars, pageVars, callVars, batchVars, orchVars, clientVars>>

\* The promises the forEach callbacks rejected are handled by nobody. When
\* process reaches its first await (line 104) the runtime reports them: a
\* Node.js that only warns lets process go on (CsvWriteRecords), one that
\* treats an unhandled rejection as an uncaught exception ends the program
\* here, and process never returns.
CsvUnhandledRejection ==
  /\ csvPc = "allocate"
  /\ groupIdx = Len(orderGroups)
  /\ unhandledRejections # <<>>
  /\ csvPc' = "terminated"
  /\ UNCHANGED <<orders, orderGroups, records, groupIdx, console, ordersOut,
                 previousRuns, unhandledRejections>>
  /\ UNCHANGED <<shipVars, pageVars, callVars, batchVars, orchVars, clientVars>>

\* process called a second time, on the array the first call returned
CsvProcessAgain ==
  /\ csvPc = "done"
  /\ previousRuns = <<>>
  /\ previousRuns' = <<[input |-> orders, output |-> ordersOut,
                        records |-> records]>>
  /\ orders' = ordersOut
  /\ orderGroups' = <<>>
  /\ records' = <<>>
  /\ groupIdx' = 0
  /\ console' = <<>>
  /\ ordersOut' = <<>>
  /\ unhandledRejections' = <<>>
  /\ csvPc' = "collect"
  /\ UNCHANGED <<shipVars, pageVars, callVars, batchVars, orchVars, clientVars>>

CsvNext ==
  \/ CsvCollect
  \/ CsvAllocateGroup
  \/ CsvWriteRecords
  \/ CsvUnhandledRejection
  \/ CsvProcessAgain

CsvSpec == CsvInit /\ [][CsvNext]_vars

-----------------------------------------------------------------------------
(* Properties of the allocation                                            *)

\* 0.01 currency unit
Epsilon == Scale \div 100

\* the records pushed for the g-th entry of orderGroups, in push order
RecordsOfGroup(g) ==
  SelectSeq(records, LAMBDA r : r.item.orderId = orderGroups[g].orderId)

Amounts(rs) == [i \in 1..Len(rs) |-> rs[i].itemPrice]

PricedRecords(g) ==
  SelectSeq(RecordsOfGroup(g), LAMBDA r : r.item.itemPrice # undefined)

UnpricedRecords(g) ==
  SelectSeq(RecordsOfGroup(g), LAMBDA r : r.item.itemPrice = undefined)

GroupTotal(g) == parseInt(orderGroups[g].items[1].orderTotal)

\* what the order total leaves once the amounts of the priced items are taken
Residual(g) == Max(0, GroupTotal(g) - SumSeq(Amounts(PricedRecords(g))))

ProcessedGroups == 1..groupIdx

\* C1 as claimed: for every order, whatever its mix of priced and unpriced
\* items, the amounts of its records add up to the parsed order total
\* within 0.01.
C1_EveryOrderSumsToTotal ==
  \A g \in ProcessedGroups :
    Abs(SumSeq(Amounts(RecordsOfGroup(g))) - GroupTotal(g)) <= Epsilon

\* C1 amended: for every group of items sharing an orderId that has at least
\* one item without price and whose priced amounts (price times quantity) do
\* not exceed the parsed order total, the amounts of its records add up to
\* the parsed order total within 0.01.
C1_SumsToTotalWhenAbsorbed ==
  \A g \in ProcessedGroups :
    (/\ Len(UnpricedRecords(g)) >= 1
     /\ SumSeq(Amounts(PricedRecords(g))) <= GroupTotal(g))
    => Abs(SumSeq(Amounts(RecordsOfGroup(g))) - GroupTotal(g)) <= Epsilon

C1_Witness ==
  /\ csvPc = "done"
  /\ \E g \in ProcessedGroups :
       /\ Len(UnpricedRecords(g)) >= 2
       /\ \E i \in 1..Len(PricedRecords(g)) :
            /\ PricedRecords(g)[i].itemQty = 2 * Scale
            /\ PricedRecords(g)[i].itemPrice > 0
       /\ SumSeq(Amounts(PricedRecords(g))) < GroupTotal(g)
       /\ SumSeq(Amounts(RecordsOfGroup(g))) = GroupTotal(g)

\* C9 as claimed: the amount distributed over the items without price is
\* max(0, orderTotal - knownSum), and no record has a negative amount.
C9_ResidualClampedAndNoNegativeRecord ==
  /\ \A g \in ProcessedGroups :
       Len(UnpricedRecords(g)) >= 1
       => SumSeq(Amounts(UnpricedRecords(g))) = Residual(g)
  /\ \A i \in 1..Len(records) : records[i].itemPrice >= 0

\* C10: with k >= 1 items without price, each of the first k-1 receives
\* remaining/k, the last receives remaining minus what the others received,
\* and the k amounts add up to exactly the remaining amount.
C10_LastItemAbsorbsRemainder ==
  \A g \in ProcessedGroups :
    LET amounts == Amounts(UnpricedRecords(g))
        k == Len(amounts)
    IN  k >= 1 =>
          /\ \A i \in 1..(k - 1) : amounts[i] = DivideBy(Residual(g), k)
          /\ amounts[k] = Residual(g) - SumSeq(SubSeq(amounts, 1, k - 1))
          /\ SumSeq(amounts) = Residual(g)

\* total 31 over three items without price: 10.333, 10.333 and 10.334
C10_Witness ==
  /\ csvPc = "done"
  /\ \E g \in ProcessedGroups :
       /\ GroupTotal(g) = 31 * Scale
       /\ Len(PricedRecords(g)) = 0
       /\ Len(UnpricedRecords(g)) = 3
       /\ 3 * DivideBy(31 * Scale, 3) # 31 * Scale
       /\ SumSeq(Amounts(UnpricedRecords(g))) = 31 * Scale

\* a group whose items all have a price and whose priced amounts differ
\* from the order total by more than 0.01
Inconsistent(g) ==
  /\ Len(UnpricedRecords(g)) = 0
  /\ Abs(SumSeq(Amounts(PricedRecords(g))) - GroupTotal(g)) > Epsilon

\* C11 as claimed: once process has returned, every order without unpriced
\* items whose known-price sum differs from the order total by more than
\* 0.01 has been reported on the console at a level other than the normal
\* log, and every order of the batch that has items still has its records.
C11_InconsistencyWarned ==
  csvPc = "done" =>
    /\ \A g \in 1..Len(orderGroups) :
         Inconsistent(g) => \E i \in 1..Len(console) : console[i].level # "log"
    /\ \A g \in 1..Len(orderGroups) :
         Len(RecordsOfGroup(g)) = Len(orderGroups[g].items)

\* the records process builds for a batch (lines 22-102)
RECURSIVE recordsOfGroups(_)
recordsOfGroups(groups) ==
  IF groups = <<>> THEN <<>>
  ELSE groupRecords(Head(groups).items) \o recordsOfGroups(Tail(groups))

recordsOf(os) == recordsOfGroups(groupItemsByOrder(collectOrderItems(os)))

\* the batch without its o-th order
Without(os, o) == SubSeq(os, 1, o - 1) \o SubSeq(os, o + 1, Len(os))

\* C24 as claimed: when an order of the batch has no order total at all,
\* process still returns; the caller is told that this order failed (what
\* process resolves to is not simply the array it was given); and the
\* records are those of the batch without that order.
C24_MissingTotalFailsOnlyThatOrder ==
  \A o \in 1..Len(orders) :
    (orders[o].orderTotal = undefined /\ orders[o].items # <<>>) =>
      /\ csvPc # "terminated"
      /\ csvPc = "done" =>
           /\ ordersOut # orders
           /\ records = recordsOf(Without(orders, o))

\* the items of an order all have a price
FullyPriced(o) == \A i \in 1..Len(o.items) : o.items[i].price # undefined

-----------------------------------------------------------------------------
(* The orders and fragments given to processShipmentElements               *)

MaxOrderItems == 2
MaxElements == 3

TitleSok == <<"s", "o", "k">>
TitleDas == <<"d", "a", "s">>

B01 == <<"B", "0", "1">>
B02 == <<"B", "0", "2">>

Item(title, productId, price) ==
  [title |-> title, price |-> price, qty |-> <<"1">>, productId |-> productId]

\* two items share the title "sok"; one productId carries blanks; one item
\* is priced before the call
ShipItemPool ==
  { Item(TitleSok, <<" ", "B", "0", "1", " ">>, undefined),
    Item(TitleSok, B02, undefined),
    Item(TitleDas, B01, <<"€", "5">>) }

ShipOrders ==
  { [orderId |-> Id1, items |-> its] : its \in SeqsUpTo(ShipItemPool, MaxOrderItems) }

Element(sel, text, href) == [sel |-> sel, text |-> text, href |-> href]

Fragment(body) == [malformed |-> FALSE, body |-> body]

HrefDp(productId) == <<"/", "d", "p", "/">> \o productId

\* link to B01 with the title as its text, and a price
FragB01Priced ==
  Fragment({ Element(".yohtmlc-item .a-link-normal", <<" ", "s", "o", "k", " ">>,
                     HrefDp(B01)),
             Element(".a-color-price", <<"€", "2", "2", ",", "9", "9">>, null) })

\* link to B02 without text, a title element holding part of the title
\* "das", a quantity badge, an empty and a filled price element
FragB02TitleDa ==
  Fragment({ Element(".a-link-normal", <<>>, HrefDp(B02)),
             Element(".yohtmlc-product-title", <<"d", "a", " ">>, null),
             Element(".a-badge-text", <<"2">>, null),
             Element(".a-price-whole", <<>>, null),
             Element(".a-offscreen", <<"€", "7">>, null) })

\* the same product in another markup: link to B02 without any title, no
\* price, a blank quantity element and a filled one
FragB02Bare ==
  Fragment({ Element("a[href*=/dp/]", <<>>, HrefDp(B02)),
             Element(".product-image__qty", <<" ">>, null),
             Element(".item-quantity", <<"3">>, null) })

\* a price, but neither a link nor a title element
FragNoKeys ==
  Fragment({ Element(".a-color-price", <<"€", "1">>, null) })

\* markup on which the extraction throws (caught at lines 169-172)
FragMalformed == [malformed |-> TRUE, body |-> {}]

FragmentPool ==
  { FragB01Priced, FragB02TitleDa, FragB02Bare, FragNoKeys, FragMalformed }

ShipInit ==
  /\ order \in ShipOrders
  /\ originalItems = order.items
  /\ shipmentElements \in SeqsUpTo(FragmentPool, MaxElements)
  /\ elemIdx = 0
  /\ uniqueItems = <<>>
  /\ diagnostics = <<>>
  /\ matched = <<>>
  /\ returned = <<>>
  /\ shipPc = "loop"
  /\ CsvIdle
  /\ PageIdle
  /\ CallIdle
  /\ BatchIdle
  /\ OrchIdle
  /\ ClientIdle

\* lines 48-173, the try block throwing: the catch logs the error
ShipElementThrows ==
  /\ shipPc = "loop"
  /\ elemIdx < Len(shipmentElements)
  /\ shipmentElements[elemIdx + 1].malformed
  /\ diagnostics' = Append(diagnostics, ErrorEntry(elemIdx + 1))
  /\ matched' = Append(matched, 0)
  /\ elemIdx' = elemIdx + 1
  /\ UNCHANGED <<order, originalItems, shipmentElements, uniqueItems, returned, shipPc>>
  /\ UNCHANGED <<csvVars, pageVars, callVars, batchVars, orchVars, clientVars>>

\* line 136: a match is attempted when an identifier or a title was extracted
attempted(fields) == Truthy(fields.productId) \/ Truthy(fields.itemTitle)

\* lines 48-173, one iteration: extract, match, merge or log the miss
ShipProcessElement ==
  /\ shipPc = "loop"
  /\ elemIdx < Len(shipmentElements)
  /\ ~shipmentElements[elemIdx + 1].malformed
  /\ \E fields \in { extractFields(shipmentElements[elemIdx + 1].body) } :
     \E m \in { IF attempted(fields)
                 THEN matchingOrderItem(order.items, fields.productId,
                                        fields.itemTitle)
                 ELSE 0 } :
       /\ matched' = Append(matched, m)
       /\ IF m > 0
          THEN \E merged \in { mergeMatch(order.items, uniqueItems, m,
                                          fields.extractedPrice, fields.itemQty) } :
                 /\ order' = [order EXCEPT !.items = merged.items]
                 /\ uniqueItems' = merged.map
                 /\ diagnostics' = Append(diagnostics,
                                          ExtractionEntry(elemIdx + 1, fields))
          ELSE /\ UNCHANGED <<order, uniqueItems>>
               /\ diagnostics' =
                    IF attempted(fields)
                    THEN diagnostics \o <<ExtractionEntry(elemIdx + 1, fields),
                                          NoMatchEntry(elemIdx + 1, fields)>>
                    ELSE Append(diagnostics, ExtractionEntry(elemIdx + 1, fields))
  /\ elemIdx' = elemIdx + 1
  /\ UNCHANGED <<originalItems, shipmentElements, returned, shipPc>>
  /\ UNCHANGED <<csvVars, pageVars, callVars, batchVars, orchVars, clientVars>>

\* lines 175-180: after the loop, return the Map's values or the fallback
ShipReturn ==
  /\ shipPc = "loop"
  /\ elemIdx = Len(shipmentElements)
  /\ returned' = returnedItems(uniqueItems, order.items)
  /\ shipPc' = "done"
  /\ UNCHANGED <<order, originalItems, shipmentElements, elemIdx, uniqueItems,
                 diagnostics, matched>>
  /\ UNCHANGED <<csvVars, pageVars, callVars, batchVars, orchVars, clientVars>>

ShipNext == ShipElementThrows \/ ShipProcessElement \/ ShipReturn

ShipSpec == ShipInit /\ [][ShipNext]_vars

-----------------------------------------------------------------------------
(* Properties of processShipmentElements                                   *)

Done == shipPc = "done"

Processed == 1..elemIdx

FieldsOf(e) == extractFields(shipmentElements[e].body)

\* the fragment e was matched to the item x because their identifiers agree
MatchedById(e, x) ==
  /\ matched[e] = x
  /\ ~shipmentElements[e].malformed
  /\ Truthy(FieldsOf(e).productId)
  /\ trim(order.items[x].productId) = trim(FieldsOf(e).productId)

\* the fragment e was matched to an item whose key is key, and carried a price
PricedMatchOfKey(e, key) ==
  /\ matched[e] > 0
  /\ order.items[matched[e]].title = key
  /\ Truthy(FieldsOf(e).extractedPrice)

Occurrences(seq, x) == Cardinality({i \in 1..Len(seq) : seq[i] = x})

\* C2 as claimed: every item of order.items is in the returned list, so the
\* returned list is never shorter than order.items.
C2_NoItemLost ==
  Done => /\ \A x \in 1..Len(order.items) : Occurrences(returned, x) >= 1
          /\ Len(returned) >= Len(originalItems)

\* C3 as claimed: every returned item has a defined price.
C3_EveryReturnedItemPriced ==
  Done => \A i \in 1..Len(returned) : order.items[returned[i]].price # undefined

\* C3 amended: every returned item that had a price before the call, or
\* whose key was matched by at least one fragment carrying a price, has a
\* defined price.
C3_ReturnedItemPricedWhenPriceSeen ==
  Done =>
    \A i \in 1..Len(returned) :
      LET x == returned[i]
      IN  (\/ originalItems[x].price # undefined
           \/ \E e \in Processed : PricedMatchOfKey(e, order.items[x].title))
          => order.items[x].price # undefined

\* an item without price, first matched by a fragment without price and
\* later by one with a price, is returned priced
C3_Witness ==
  /\ Done
  /\ \E i \in 1..Len(returned) :
       LET x == returned[i]
       IN  /\ originalItems[x].price = undefined
           /\ order.items[x].price # undefined
           /\ \E e1, e2 \in Processed :
                /\ e1 < e2
                /\ matched[e1] = x /\ matched[e2] = x
                /\ ~Truthy(FieldsOf(e1).extractedPrice)
                /\ Truthy(FieldsOf(e2).extractedPrice)

\* C4 as claimed: an item to which two or more fragments of different markup
\* resolve by product identifier is returned exactly once, with a price when
\* one of those fragments carried one.
C4_OneEntryPerProduct ==
  Done =>
    \A x \in 1..Len(order.items) :
      LET byId == {e \in Processed : MatchedById(e, x)}
      IN  (\E e1, e2 \in byId : shipmentElements[e1] # shipmentElements[e2])
          => /\ Occurrences(returned, x) = 1
             /\ (\E e \in byId : Truthy(FieldsOf(e).extractedPrice))
                => Truthy(order.items[x].price)

\* C5: a fragment matched to a key that is not yet in the Map populates the
\* record (price, when it carries one, and quantity); a fragment matched to
\* a key already in the Map changes the record's price only when the record
\* has none; a price a record has is never changed nor removed.
C5_PriceWrittenOnce ==
  [][ /\ \A i \in 1..Len(uniqueItems) :
           LET x == uniqueItems[i].ref
           IN  /\ i <= Len(uniqueItems') /\ uniqueItems'[i] = uniqueItems[i]
               /\ Truthy(order.items[x].price)
                  => order'.items[x].price = order.items[x].price
               /\ order'.items[x].price # order.items[x].price
                  => /\ ~Truthy(order.items[x].price)
                     /\ order.items[matched'[elemIdx']].title = uniqueItems[i].key
                     /\ order'.items[x].price = FieldsOf(elemIdx').extractedPrice
      /\ Len(uniqueItems') > Len(uniqueItems)
         => LET x == uniqueItems'[Len(uniqueItems')].ref
                fields == FieldsOf(elemIdx')
            IN  /\ x = matched'[elemIdx']
                /\ order'.items[x].qty = fields.itemQty
                /\ order'.items[x].price =
                     IF fields.extractedPrice # undefined
                     THEN fields.extractedPrice ELSE order.items[x].price
    ]_vars

\* a record populated without price, priced by a second fragment and left
\* alone by a third one that carries another price
C5_Witness ==
  \E e1, e2, e3 \in Processed :
    /\ e1 < e2 /\ e2 < e3
    /\ matched[e1] > 0 /\ matched[e2] > 0 /\ matched[e3] > 0
    /\ order.items[matched[e1]].title = order.items[matched[e2]].title
    /\ order.items[matched[e2]].title = order.items[matched[e3]].title
    /\ ~Truthy(FieldsOf(e1).extractedPrice)
    /\ Truthy(FieldsOf(e2).extractedPrice)
    /\ Truthy(FieldsOf(e3).extractedPrice)
    /\ FieldsOf(e3).extractedPrice # FieldsOf(e2).extractedPrice
    /\ order.items[matched[e1]].price = FieldsOf(e2).extractedPrice

\* C6: when no fragment matches any item, the returned list is the order's
\* original item list: same items, same order, every field unchanged.
C6_FallbackReturnsOriginalItems ==
  (Done /\ \A e \in Processed : matched[e] = 0)
  => /\ returned = [i \in 1..Len(originalItems) |-> i]
     /\ order.items = originalItems

C6_Witness ==
  /\ Done
  /\ Len(shipmentElements) >= 2
  /\ \A e \in Processed : matched[e] = 0
  /\ \E e \in Processed : Truthy(FieldsOf(e).productId)
  /\ Len(originalItems) >= 2
  /\ Len(returned) = Len(originalItems)

\* C7 as claimed: when some item has the fragment's product identifier, the
\* matched item is such an item; the title rule selects an item only when no
\* item matches by identifier.
C7_IdentifierBeforeTitle ==
  \A e \in Processed :
    (/\ ~shipmentElements[e].malformed
     /\ Truthy(FieldsOf(e).productId)
     /\ \E x \in 1..Len(order.items) :
          trim(order.items[x].productId) = trim(FieldsOf(e).productId))
    => MatchedById(e, matched[e])

\* C8 as claimed: every fragment whose fields were extracted and that is
\* matched to no item, also one without identifier and title, has a no-match
\* entry naming the attempted identifier and title, and the loop goes on to
\* the last fragment.
C8_EveryMissLogged ==
  Done =>
    /\ elemIdx = Len(shipmentElements)
    /\ \A e \in Processed :
         (matched[e] = 0 /\ ~shipmentElements[e].malformed)
         => \E i \in 1..Len(diagnostics) :
              /\ diagnostics[i].kind = "no-match"
              /\ diagnostics[i].elem = e
              /\ diagnostics[i].productId = FieldsOf(e).productId
              /\ diagnostics[i].itemTitle = FieldsOf(e).itemTitle

-----------------------------------------------------------------------------
(* ScrapePricesStrategy.extractShipmentElements                            *)

\* lines 235-241
shipmentSelectors ==
  << "[data-component=shipments]", ".shipment", "[data-component=purchasedItems]",
     ".a-box.a-spacing-base", ".order-items-container" >>

\* An element of the page is [matches, childs, innerHTML]: the selectors of
\* shipmentSelectors it matches, the innerHTML of its descendants matching
\* childShipmentSelector in document order, and its own innerHTML.
PageElement(matches, childs, innerHTML) ==
  [matches |-> matches, childs |-> childs, innerHTML |-> innerHTML]

\* document.querySelectorAll(selector), line 245
querySelectorAll(elements, selector) ==
  SelectSeq(elements, LAMBDA el : selector \in el.matches)

\* lines 249-268: the strings one matched element offers, trimmed
contentsOf(el) ==
  IF Len(el.childs) > 0 THEN [i \in 1..Len(el.childs) |-> trim(el.childs[i])]
  ELSE <<trim(el.innerHTML)>>

\* lines 255-258 and 264-267: push each content not pushed before
RECURSIVE pushNew(_, _)
pushNew(acc, contents) ==
  IF contents = <<>> THEN acc
  ELSE IF Head(contents) \in acc.processed THEN pushNew(acc, Tail(contents))
  ELSE pushNew([elements |-> Append(acc.elements, Head(contents)),
                processed |-> acc.processed \cup {Head(contents)}],
               Tail(contents))

\* lines 247-269: pageShipmentElements.forEach
RECURSIVE forEachShipmentElement(_, _)
forEachShipmentElement(acc, pageShipmentElements) ==
  IF pageShipmentElements = <<>> THEN acc
  ELSE forEachShipmentElement(pushNew(acc, contentsOf(Head(pageShipmentElements))),
                              Tail(pageShipmentElements))

\* line 273: the test that ends the loop over the selectors
foundAny_never(elements) == FALSE

foundAny(elements) == Len(elements) > 0

MaxPageElements == 2

ShipmentHtmlA == <<" ", "<", "a", ">", " ">>
ShipmentHtmlB == <<"<", "b", ">">>

PageElementPool ==
  { PageElement(m, c.childs, c.innerHTML) :
      m \in { {shipmentSelectors[1]}, {shipmentSelectors[3]},
              {shipmentSelectors[2], shipmentSelectors[4]},
              {shipmentSelectors[5]} },
      c \in { [childs |-> <<>>, innerHTML |-> ShipmentHtmlA],
              [childs |-> <<>>, innerHTML |-> <<>>],
              [childs |-> <<ShipmentHtmlA, <<"<", "a", ">">> >>,
               innerHTML |-> ShipmentHtmlB],
              [childs |-> <<ShipmentHtmlB>>, innerHTML |-> ShipmentHtmlA] } }

PageInit ==
  /\ pageElements \in SeqsUpTo(PageElementPool, MaxPageElements)
  /\ selectorIdx = 0
  /\ extracted = <<>>
  /\ processedElements = {}
  /\ pushedBy = <<>>
  /\ pagePc = "loop"
  /\ CsvIdle
  /\ ShipIdle
  /\ CallIdle
  /\ BatchIdle
  /\ OrchIdle
  /\ ClientIdle

\* lines 244-276: one iteration of the loop over shipmentSelectors, with the
\* break (and then the return of line 282) when something has been pushed
PageTrySelector ==
  /\ pagePc = "loop"
  /\ selectorIdx < Len(shipmentSelectors)
  /\ \E after \in { forEachShipmentElement(
                       [elements |-> extracted, processed |-> processedElements],
                       querySelectorAll(pageElements,
                                        shipmentSelectors[selectorIdx + 1])) } :
       /\ extracted' = after.elements
       /\ processedElements' = after.processed
       /\ pushedBy' = pushedBy \o [i \in 1..(Len(after.elements) - Len(extracted))
                                     |-> selectorIdx + 1]
       /\ pagePc' = IF foundAny(after.elements) THEN "done" ELSE "loop"
  /\ selectorIdx' = selectorIdx + 1
  /\ UNCHANGED pageElements
  /\ UNCHANGED <<csvVars, shipVars, callVars, batchVars, orchVars, clientVars>>

\* line 282 after the loop ran out of selectors
PageReturn ==
  /\ pagePc = "loop"
  /\ selectorIdx = Len(shipmentSelectors)
  /\ pagePc' = "done"
  /\ UNCHANGED <<pageElements, selectorIdx, extracted, processedElements, pushedBy>>
  /\ UNCHANGED <<csvVars, shipVars, callVars, batchVars, orchVars, clientVars>>

PageNext == PageTrySelector \/ PageReturn

PageSpec == PageInit /\ [][PageNext]_vars

\* the selectors, by index, that match at least one element of the page
MatchingSelectors ==
  { k \in 1..Len(shipmentSelectors) :
      \E i \in 1..Len(pageElements) : shipmentSelectors[k] \in pageElements[i].matches }

\* C13: the selectors are tried in their fixed order; every fragment returned
\* was pushed in the iteration of the first selector that matches at least
\* one element, that selector yields at least one fragment, no selector
\* after it is tried, and a page no selector matches yields no fragment.
C13_OnlyFirstMatchingSelector ==
  pagePc = "done" =>
    IF MatchingSelectors = {}
    THEN extracted = <<>> /\ selectorIdx = Len(shipmentSelectors)
    ELSE \E first \in MatchingSelectors :
           /\ \A k \in MatchingSelectors : first <= k
           /\ extracted # <<>>
           /\ \A i \in 1..Len(pushedBy) : pushedBy[i] = first
           /\ Len(pushedBy) = Len(extracted)
           /\ selectorIdx = first

\* the second selector is the first to match; the page also has an element
\* only the fifth selector matches
C13_Witness ==
  /\ pagePc = "done"
  /\ MatchingSelectors = {2, 4, 5}
  /\ Len(extracted) >= 1
  /\ \E i \in 1..Len(pageElements) :
       /\ pageElements[i].matches = {shipmentSelectors[5]}
       /\ \A j \in 1..Len(extracted) : extracted[j] # trim(pageElements[i].innerHTML)

-----------------------------------------------------------------------------
(* Calls of the public helpers: extractPrice, extractProductIdFromUrl      *)

MaxBodyElements == 4
MaxPathParts == 5

PriceElementPool ==
  { Element(".a-price-whole", <<>>, null),
    Element(".a-price-whole", <<"1", "2", "3">>, null),
    Element(".a-price-fraction", <<" ">>, null),
    Element(".a-offscreen", <<" ", "€", "6", "7", ",", "8", "9", " ">>, null),
    Element(".a-color-price", <<"€", "1", "0", ",", "0", "0">>, null),
    Element(".item-price", <<"9">>, null) }

\* the bodies: at most MaxBodyElements elements, one per selector
PriceBodies ==
  { b \in SUBSET PriceElementPool :
      /\ Cardinality(b) <= MaxBodyElements
      /\ \A x \in b : \A y \in b : x.sel = y.sel => x = y }

PriceSelectorLists ==
  { priceSelectors, <<".a-color-price", ".a-offscreen", ".a-price-whole">>, <<>> }

PriceCalls ==
  { [fn |-> "extractPrice", body |-> b, selectors |-> sl] :
      b \in PriceBodies, sl \in PriceSelectorLists }

\* An item URL by its parts: the path segments, the search string after "?"
\* (null when the URL has none) with the value its productId pair holds
\* (null when it has no such pair), and whether it carries an origin.
Asin == <<"B", "0", "A", "B", "C", "D", "E", "F", "G", "H">>
Q7 == <<"Q", "7">>
ProductIdPair == ProductIdParam \o <<"=">>
RefPair == <<"r", "e", "f", "=", "1">>

PathSegments == { DpToken, Asin, B01, <<"g", "p">> }

UrlQueries ==
  { [search |-> null, productId |-> null],
    [search |-> ProductIdPair \o Q7, productId |-> Q7],
    [search |-> ProductIdPair, productId |-> <<>>],
    [search |-> RefPair \o <<"&">> \o ProductIdPair \o Q7, productId |-> Q7] }

RECURSIVE PathOf(_)
PathOf(parts) ==
  IF parts = <<>> THEN <<>> ELSE <<"/">> \o Head(parts) \o PathOf(Tail(parts))

UrlOf(shape) ==
  (IF shape.absolute THEN BaseOrigin ELSE <<>>)
  \o PathOf(shape.parts)
  \o (IF shape.query.search = null THEN <<>> ELSE <<"?">> \o shape.query.search)

UrlShapes ==
  { [absolute |-> FALSE, parts |-> ps, query |-> q] :
      ps \in SeqsUpTo(PathSegments, MaxPathParts), q \in UrlQueries }
  \cup { [absolute |-> TRUE, parts |-> ps, query |-> q] :
           ps \in { <<>>, <<DpToken, Asin>>, <<B01, Asin>> }, q \in UrlQueries }

UrlCalls ==
  { [fn |-> "extractProductIdFromUrl", itemUri |-> UrlOf(sh), shape |-> sh] :
      sh \in UrlShapes }
  \cup { [fn |-> "extractProductIdFromUrl", itemUri |-> undefined,
           shape |-> [absolute |-> FALSE, parts |-> <<>>,
                      query |-> [search |-> null, productId |-> null]]] }

ScrapeCallInit ==
  /\ call \in PriceCalls \cup UrlCalls
  /\ result = <<>>
  /\ callPc = "called"
  /\ today = [year |-> <<>>, iso |-> <<>>]
  /\ CsvIdle
  /\ ShipIdle
  /\ PageIdle
  /\ BatchIdle
  /\ OrchIdle
  /\ ClientIdle

CallExtractPrice ==
  /\ callPc = "called"
  /\ call.fn = "extractPrice"
  /\ result' = extractPrice(call.body, call.selectors)
  /\ callPc' = "returned"
  /\ UNCHANGED <<call, today>>
  /\ UNCHANGED <<csvVars, shipVars, pageVars, batchVars, orchVars, clientVars>>

CallExtractProductIdFromUrl ==
  /\ callPc = "called"
  /\ call.fn = "extractProductIdFromUrl"
  /\ result' = extractProductIdFromUrl(call.itemUri)
  /\ callPc' = "returned"
  /\ UNCHANGED <<call, today>>
  /\ UNCHANGED <<csvVars, shipVars, pageVars, batchVars, orchVars, clientVars>>

ScrapeCallNext == CallExtractPrice \/ CallExtractProductIdFromUrl

ScrapeCallSpec == ScrapeCallInit /\ [][ScrapeCallNext]_vars

Returned(fn) == callPc = "returned" /\ call.fn = fn

\* the text has a character other than a space
NonBlank(text) == \E i \in 1..Len(text) : text[i] # " "

\* the selectors of the given list, by index, whose first element in the body
\* has non-blank text
YieldingSelectors ==
  { k \in 1..Len(call.selectors) :
      \E el \in call.body : el.sel = call.selectors[k] /\ NonBlank(el.text) }

\* C14: extractPrice returns the text, surrounding blanks apart and otherwise
\* as displayed (currency symbol and decimal comma kept), of the first
\* selector of the given list that yields non-empty text, and undefined when
\* no selector of the list yields non-empty text.
C14_FirstNonEmptyPriceText ==
  Returned("extractPrice") =>
    IF YieldingSelectors = {} THEN result = undefined
    ELSE \E k \in YieldingSelectors :
           /\ \A j \in YieldingSelectors : k <= j
           /\ \E el \in call.body :
                /\ el.sel = call.selectors[k]
                /\ result = trim(el.text)
                /\ includes(el.text, result)

\* the first selectors of the list are present with empty and blank text, a
\* later one carries the price, and one after that carries another text
C14_Witness ==
  /\ Returned("extractPrice")
  /\ call.selectors = priceSelectors
  /\ YieldingSelectors = {3, 4}
  /\ \E el \in call.body : el.sel = ".a-price-whole" /\ el.text = <<>>
  /\ \E el \in call.body : el.sel = ".a-price-fraction"
  /\ result = <<"€", "6", "7", ",", "8", "9">>

\* an identifier: non-empty, capital letters and digits only
IsIdentifier(id) ==
  /\ id # null
  /\ id # <<>>
  /\ \A i \in 1..Len(id) : id[i] \in UpperLetters \cup Digits

\* the segment after the first "dp" segment of the path, null without one
AfterDp(parts) ==
  IF \E i \in 1..(Len(parts) - 1) : parts[i] = DpToken /\ \A j \in 1..(i - 1) : parts[j] # DpToken
  THEN parts[1 + CHOOSE i \in 1..(Len(parts) - 1) :
                   parts[i] = DpToken /\ \A j \in 1..(i - 1) : parts[j] # DpToken]
  ELSE null

\* the first segment of 10 or more alphanumeric characters, null without one
LongSegment(parts) ==
  IF \E i \in 1..Len(parts) : IsIdentifier(parts[i]) /\ Len(parts[i]) >= 10
  THEN parts[CHOOSE i \in 1..Len(parts) :
               /\ IsIdentifier(parts[i]) /\ Len(parts[i]) >= 10
               /\ \A j \in 1..(i - 1) : ~(IsIdentifier(parts[j]) /\ Len(parts[j]) >= 10)]
  ELSE null

\* the segment at the 0-based index n, null when the path is shorter
SegmentAt(parts, n) == IF n < Len(parts) THEN parts[n + 1] ELSE null

\* the candidates the claim lists, in its order, for the URL called with
ClaimedCandidates ==
  << call.shape.query.productId,
     AfterDp(call.shape.parts),
     LongSegment(call.shape.parts),
     SegmentAt(call.shape.parts, 3),
     SegmentAt(call.shape.parts, 4) >>

\* C15 as claimed: extractProductIdFromUrl returns the first valid candidate
\* in the order productId query parameter, segment following a "dp" segment,
\* segment of 10 or more alphanumeric characters, positional fallbacks (null
\* when none is valid); and for a URL .../dp/<ID>/... without productId
\* parameter it returns <ID>.
C15_FirstValidCandidateInOrder ==
  (Returned("extractProductIdFromUrl") /\ call.itemUri # undefined) =>
    /\ IF \E k \in 1..5 : IsIdentifier(ClaimedCandidates[k])
       THEN \E k \in 1..5 :
              /\ IsIdentifier(ClaimedCandidates[k])
              /\ \A j \in 1..(k - 1) : ~IsIdentifier(ClaimedCandidates[j])
              /\ result = ClaimedCandidates[k]
       ELSE result = null
    /\ (/\ call.shape.query.productId = null
        /\ IsIdentifier(AfterDp(call.shape.parts)))
       => result = AfterDp(call.shape.parts)

\* C16 as claimed: without productId parameter, without "dp" segment, without
\* segment of 10 or more alphanumeric characters and without identifier at
\* the positional fallback indices, extractProductIdFromUrl returns null; the
\* first path segment is not taken for the identifier.
C16_AbsentWhenNoCandidate ==
  (Returned("extractProductIdFromUrl") /\ call.itemUri # undefined) =>
    ((/\ ~IsIdentifier(call.shape.query.productId)
      /\ \A i \in 1..Len(call.shape.parts) : call.shape.parts[i] # DpToken
      /\ LongSegment(call.shape.parts) = null
      /\ ~IsIdentifier(SegmentAt(call.shape.parts, 3))
      /\ ~IsIdentifier(SegmentAt(call.shape.parts, 4)))
     => result = null)

-----------------------------------------------------------------------------
(* The quantity processShipmentElements extracts                           *)

\* the quantity selectors, by index, whose first element in the body has
\* non-blank text
QtyYielding(body) ==
  { k \in 1..Len(qtySelectors) :
      \E el \in body : el.sel = qtySelectors[k] /\ NonBlank(el.text) }

\* C17 as claimed: the quantity logged for a fragment is the first non-empty
\* text among the quantity selectors taken in order, "1" when no selector
\* yields non-empty text, and never the empty string.
C17_QtyFirstNonEmptyOrOne ==
  \A i \in 1..Len(diagnostics) :
    diagnostics[i].kind = "extraction" =>
      /\ diagnostics[i].itemQty # <<>>
      /\ IF QtyYielding(shipmentElements[diagnostics[i].elem].body) = {}
         THEN diagnostics[i].itemQty = <<"1">>
         ELSE \E k \in QtyYielding(shipmentElements[diagnostics[i].elem].body) :
                /\ \A j \in QtyYielding(shipmentElements[diagnostics[i].elem].body) :
                     k <= j
                /\ \E el \in shipmentElements[diagnostics[i].elem].body :
                     /\ el.sel = qtySelectors[k]
                     /\ diagnostics[i].itemQty = trim(el.text)

-----------------------------------------------------------------------------
(* GenerateCSVToshlStrategy.formatDate and parseDeliveryStatus             *)

LowerLetters ==
  {"a", "b", "c", "d", "e", "f", "g", "h", "i", "j", "k", "l", "m",
   "n", "o", "p", "q", "r", "s", "t", "u", "v", "w", "x", "y", "z"}

\* \w of a regular expression
WordChars == LowerLetters \cup UpperLetters \cup Digits \cup {"_"}

\* String.prototype.toLowerCase, character by character
LowerOf(c) ==
  CASE c = "A" -> "a" [] c = "B" -> "b" [] c = "C" -> "c" [] c = "D" -> "d"
    [] c = "E" -> "e" [] c = "F" -> "f" [] c = "G" -> "g" [] c = "H" -> "h"
    [] c = "I" -> "i" [] c = "J" -> "j" [] c = "K" -> "k" [] c = "L" -> "l"
    [] c = "M" -> "m" [] c = "N" -> "n" [] c = "O" -> "o" [] c = "P" -> "p"
    [] c = "Q" -> "q" [] c = "R" -> "r" [] c = "S" -> "s" [] c = "T" -> "t"
    [] c = "U" -> "u" [] c = "V" -> "v" [] c = "W" -> "w" [] c = "X" -> "x"
    [] c = "Y" -> "y" [] c = "Z" -> "z"
    [] OTHER -> c

toLowerCase(s) == [i \in 1..Len(s) |-> LowerOf(s[i])]

\* String.prototype.padStart(2, '0')
padStart_none(s) == s

padStart(s) ==
  IF Len(s) >= 2 THEN s
  ELSE IF Len(s) = 1 THEN <<"0">> \o s
  ELSE <<"0", "0">>

\* the months table of formatDate (lines 153-166), as [name, number] pairs
months ==
  << [name |-> <<"j", "a", "n", "u", "a", "r", "i">>, number |-> <<"0", "1">>],
     [name |-> <<"f", "e", "b", "r", "u", "a", "r", "i">>, number |-> <<"0", "2">>],
     [name |-> <<"m", "a", "a", "r", "t">>, number |-> <<"0", "3">>],
     [name |-> <<"a", "p", "r", "i", "l">>, number |-> <<"0", "4">>],
     [name |-> <<"m", "e", "i">>, number |-> <<"0", "5">>],
     [name |-> <<"j", "u", "n", "i">>, number |-> <<"0", "6">>],
     [name |-> <<"j", "u", "l", "i">>, number |-> <<"0", "7">>],
     [name |-> <<"a", "u", "g", "u", "s", "t", "u", "s">>, number |-> <<"0", "8">>],
     [name |-> <<"s", "e", "p", "t", "e", "m", "b", "e", "r">>, number |-> <<"0", "9">>],
     [name |-> <<"o", "k", "t", "o", "b", "e", "r">>, number |-> <<"1", "0">>],
     [name |-> <<"n", "o", "v", "e", "m", "b", "e", "r">>, number |-> <<"1", "1">>],
     [name |-> <<"d", "e", "c", "e", "m", "b", "e", "r">>, number |-> <<"1", "2">>] >>

\* What the object literal of lines 153-166 inherits from Object.prototype
\* under a key that toLowerCase can produce, as [name, text] pairs: text is
\* what a template literal makes of the inherited value, which is truthy
inheritedMembers ==
  << [name |-> <<"c", "o", "n", "s", "t", "r", "u", "c", "t", "o", "r">>,
      text |-> <<"f", "u", "n", "c", "t", "i", "o", "n", " ", "O", "b", "j", "e", "c", "t", "(", ")", " ", "{", " ", "[", "n", "a", "t", "i", "v", "e", " ", "c", "o", "d", "e", "]", " ", "}">>],
     [name |-> <<"_", "_", "p", "r", "o", "t", "o", "_", "_">>,
      text |-> <<"[", "o", "b", "j", "e", "c", "t", " ", "O", "b", "j", "e", "c", "t", "]">>] >>

\* months[key]: the number of a month of the table, the inherited member of
\* that name, undefined for any other key
monthNumber(key) ==
  IF \E i \in 1..Len(months) : months[i].name = key
  THEN months[CHOOSE i \in 1..Len(months) : months[i].name = key].number
  ELSE IF \E i \in 1..Len(inheritedMembers) : inheritedMembers[i].name = key
  THEN inheritedMembers[CHOOSE i \in 1..Len(inheritedMembers) :
                          inheritedMembers[i].name = key].text
  ELSE undefined

\* the number of characters of s from position i on that are in chars
RECURSIVE RunLen(_, _, _)
RunLen(s, i, chars) ==
  IF i > Len(s) THEN 0
  ELSE IF s[i] \notin chars THEN 0
  ELSE 1 + RunLen(s, i + 1, chars)

CharAt(s, i) == IF i >= 1 /\ i <= Len(s) THEN s[i] ELSE ""

NoMatch == [ok |-> FALSE, groups |-> <<>>]

\* /(\w+)\s+(\d{1,2}),\s+(\d{4})/ tried at position a, the day of nd digits
\* starting at position p
monthDayYearFrom(s, a, p, nd) ==
  IF nd = 0 \/ RunLen(s, p + nd + 1, {" "}) = 0
     \/ RunLen(s, p + nd + 1 + RunLen(s, p + nd + 1, {" "}), Digits) < 4
  THEN NoMatch
  ELSE [ok |-> TRUE,
        groups |-> << SubSeq(s, a, a + RunLen(s, a, WordChars) - 1),
                      SubSeq(s, p, p + nd - 1),
                      SubSeq(s, p + nd + 1 + RunLen(s, p + nd + 1, {" "}),
                                p + nd + 4 + RunLen(s, p + nd + 1, {" "})) >>]

\* \d{1,2} followed by a comma, at position p: the number of digits taken
dayDigitsBeforeComma(s, p) ==
  IF CharAt(s, p) \in Digits /\ CharAt(s, p + 1) \in Digits /\ CharAt(s, p + 2) = ","
  THEN 2
  ELSE IF CharAt(s, p) \in Digits /\ CharAt(s, p + 1) = "," THEN 1
  ELSE 0

monthDayYearAt(s, a) ==
  IF RunLen(s, a, WordChars) = 0
     \/ RunLen(s, a + RunLen(s, a, WordChars), {" "}) = 0
  THEN NoMatch
  ELSE monthDayYearFrom(
         s, a,
         a + RunLen(s, a, WordChars) + RunLen(s, a + RunLen(s, a, WordChars), {" "}),
         dayDigitsBeforeComma(
           s, a + RunLen(s, a, WordChars)
                + RunLen(s, a + RunLen(s, a, WordChars), {" "})))

\* dateStr.match(regex) of line 184: the leftmost match
matchMonthDayYear(s) ==
  IF \E a \in 1..Len(s) : monthDayYearAt(s, a).ok
  THEN monthDayYearAt(s, CHOOSE a \in 1..Len(s) :
                           /\ monthDayYearAt(s, a).ok
                           /\ \A b \in 1..(a - 1) : ~monthDayYearAt(s, b).ok)
  ELSE NoMatch

Dash == <<"-">>

\* lines 183-195: the "month DD, YYYY" form, else the string itself
formatMonthFirst(dateStr, match) ==
  IF match.ok /\ monthNumber(toLowerCase(match.groups[1])) # undefined
  THEN match.groups[3] \o Dash \o monthNumber(toLowerCase(match.groups[1]))
       \o Dash \o padStart(match.groups[2])
  ELSE dateStr

\* lines 172-195 on the trimmed string and its split at the spaces
formatDateParts(dateStr, dateParts) ==
  IF Len(dateParts) = 3 /\ monthNumber(toLowerCase(dateParts[2])) # undefined
  THEN dateParts[3] \o Dash \o monthNumber(toLowerCase(dateParts[2]))
       \o Dash \o padStart(dateParts[1])
  ELSE formatMonthFirst(dateStr, matchMonthDayYear(dateStr))

formatDateTrimmed(dateStr) == formatDateParts(dateStr, split(dateStr, " "))

\* formatDate with line 152 testing for null only
formatDate_nullOnly(dateStr, now) ==
  IF dateStr = null THEN now.iso ELSE formatDateTrimmed(trim(dateStr))

\* GenerateCSVToshlStrategy.formatDate; now is what new Date() gives
formatDate(dateStr, now) ==
  IF ~Truthy(dateStr) THEN now.iso ELSE formatDateTrimmed(trim(dateStr))

\* String(x) in a concatenation or a template literal
UndefinedText == <<"u", "n", "d", "e", "f", "i", "n", "e", "d">>

toText(x) == IF x = undefined \/ x = null THEN UndefinedText ELSE x

\* the number of characters at the end of s that are in chars
RECURSIVE TrailingRun(_, _)
TrailingRun(s, chars) ==
  IF s = <<>> THEN 0
  ELSE IF s[Len(s)] \notin chars THEN 0
  ELSE 1 + TrailingRun(SubSeq(s, 1, Len(s) - 1), chars)

\* /(\d{1,2}) (\w+)$/ with the final word of w characters: the leftmost match
matchDayWordOf(s, w) ==
  IF w = 0 \/ CharAt(s, Len(s) - w) # " " \/ CharAt(s, Len(s) - w - 1) \notin Digits
  THEN NoMatch
  ELSE [ok |-> TRUE,
        groups |-> << IF CharAt(s, Len(s) - w - 2) \in Digits
                      THEN SubSeq(s, Len(s) - w - 2, Len(s) - w - 1)
                      ELSE SubSeq(s, Len(s) - w - 1, Len(s) - w - 1),
                      SubSeq(s, Len(s) - w + 1, Len(s)) >>]

\* statusStr.match(deliveryDateRegex), line 204
matchDayWord(s) == matchDayWordOf(s, TrailingRun(s, WordChars))

AssumedYear == <<"2", "0", "2", "4">>

\* lines 207-211: the delivery date, undefined without a match
deliveryDate(match, now) ==
  IF ~match.ok THEN undefined
  ELSE AssumedYear \o Dash
       \o toText(At(split(formatDate(<<"0", "1", " ">> \o match.groups[2]
                                       \o <<" ">> \o AssumedYear, now), "-"), 1))
       \o Dash \o padStart(match.groups[1])

\* lines 213-226: the keyword tests in the order of the if-else chain
keywordGroups_refundedFirst ==
  << [status |-> "Refunded",
      keywords |-> { <<"g", "e", "r", "e", "s", "t", "i", "t", "u", "e", "e", "r", "d">>,
                     <<"t", "e", "r", "u", "g", "b", "e", "t", "a", "a", "l", "d">> }],
     [status |-> "Delivered",
      keywords |-> { <<"b", "e", "z", "o", "r", "g", "d", " ", "o", "p">>,
                     <<"g", "e", "l", "e", "v", "e", "r", "d", " ", "o", "p">> }] >>

keywordGroups ==
  << [status |-> "Delivered",
      keywords |-> { <<"b", "e", "z", "o", "r", "g", "d", " ", "o", "p">>,
                     <<"g", "e", "l", "e", "v", "e", "r", "d", " ", "o", "p">> }],
     [status |-> "Returned",
      keywords |-> { <<"r", "e", "t", "o", "u", "r", "z", "e", "n", "d", "i", "n", "g", " ", "v", "o", "l", "t", "o", "o", "i", "d">>,
                     <<"r", "e", "t", "o", "u", "r", " ", "v", "e", "r", "w", "e", "r", "k", "t">> }],
     [status |-> "ProcessingRefund",
      keywords |-> { <<"t", "e", "r", "u", "g", "b", "e", "t", "a", "l", "i", "n", "g", " ", "w", "o", "r", "d", "t", " ", "v", "e", "r", "w", "e", "r", "k", "t">>,
                     <<"t", "e", "r", "u", "g", "b", "e", "t", "a", "l", "i", "n", "g", " ", "i", "n", " ", "b", "e", "h", "a", "n", "d", "e", "l", "i", "n", "g">> }],
     [status |-> "Undeliverable",
      keywords |-> { <<"o", "n", "b", "e", "z", "o", "r", "g", "b", "a", "a", "r">>,
                     <<"n", "i", "e", "t", " ", "l", "e", "v", "e", "r", "b", "a", "a", "r">> }],
     [status |-> "Expected",
      keywords |-> { <<"w", "e", "r", "d", " ", "v", "e", "r", "w", "a", "c", "h", "t", " ", "o", "p">>,
                     <<"v", "e", "r", "w", "a", "c", "h", "t", " ", "o", "p">> }],
     [status |-> "PossiblyLost",
      keywords |-> { <<"j", "e", " ", "p", "a", "k", "k", "e", "t", " ", "i", "s", " ", "m", "o", "g", "e", "l", "i", "j", "k", " ", "z", "o", "e", "k", "g", "e", "r", "a", "a", "k", "t">>,
                     <<"p", "a", "k", "k", "e", "t", " ", "m", "o", "g", "e", "l", "i", "j", "k", " ", "z", "o", "e", "k", "g", "e", "r", "a", "a", "k", "t">> }],
     [status |-> "Refunded",
      keywords |-> { <<"g", "e", "r", "e", "s", "t", "i", "t", "u", "e", "e", "r", "d">>,
                     <<"t", "e", "r", "u", "g", "b", "e", "t", "a", "a", "l", "d">> }] >>

\* lines 213-230 from the g-th test on: the status and what is logged
RECURSIVE classifyFrom(_, _)
classifyFrom(statusStr, g) ==
  IF g > Len(keywordGroups)
  THEN [status |-> "Unknown", logs |-> <<Log("Unknown delivery status")>>]
  ELSE IF \E kw \in keywordGroups[g].keywords : includes(statusStr, kw)
  THEN [status |-> keywordGroups[g].status, logs |-> <<>>]
  ELSE classifyFrom(statusStr, g + 1)

\* line 201: statusStr?.trim().toLowerCase() + " " + statusStr2?.trim().toLowerCase()
optLower(x) == IF x = undefined \/ x = null THEN undefined ELSE toLowerCase(trim(x))

concatStatus(statusStr, statusStr2) ==
  toText(optLower(statusStr)) \o <<" ">> \o toText(optLower(statusStr2))

\* lines 203-230 on the concatenated string
parseConcatenated(statusStr, now) ==
  [status |-> classifyFrom(statusStr, 1).status,
   date |-> deliveryDate(matchDayWord(statusStr), now),
   logs |-> classifyFrom(statusStr, 1).logs]

\* GenerateCSVToshlStrategy.parseDeliveryStatus; date is undefined when the
\* returned object has none
parseDeliveryStatus(statusStr, statusStr2, now) ==
  IF ~Truthy(statusStr) /\ ~Truthy(statusStr2)
  THEN [status |-> "Unknown", date |-> undefined, logs |-> <<>>]
  ELSE parseConcatenated(concatStatus(statusStr, statusStr2), now)

-----------------------------------------------------------------------------
(* Calls of formatDate and parseDeliveryStatus                             *)

Todays ==
  { [year |-> <<"2", "0", "2", "4">>, iso |-> <<"2", "0", "2", "4", "-", "0", "3", "-", "0", "9">>],
    [year |-> <<"2", "0", "2", "6">>, iso |-> <<"2", "0", "2", "6", "-", "1", "1", "-", "0", "3">>] }

DayTexts == { <<"1">>, <<"1", "3">>, <<"2", "2">> }
YearTexts == { <<"2", "0", "2", "4">>, <<"1", "9", "9", "9">> }

\* the month of index m written in lower case, capitalised, or in capitals
MonthTexts(m) ==
  { months[m].name,
    [i \in 1..Len(months[m].name) |->
       IF i = 1 THEN CHOOSE c \in UpperLetters : LowerOf(c) = months[m].name[1]
       ELSE months[m].name[i]],
    [i \in 1..Len(months[m].name) |->
       CHOOSE c \in UpperLetters : LowerOf(c) = months[m].name[i]] }

\* "<day> <monthName> <year>" and "<monthName> <day>, <year>"
DateShapes ==
  { [layout |-> l, day |-> d, month |-> m, monthText |-> mt, year |-> y] :
      l \in {"dmy", "mdy"}, d \in DayTexts, m \in 1..Len(months),
      mt \in UNION { MonthTexts(k) : k \in 1..Len(months) }, y \in YearTexts }

DateTextOf(shape) ==
  IF shape.layout = "dmy"
  THEN shape.day \o <<" ">> \o shape.monthText \o <<" ">> \o shape.year
  ELSE shape.monthText \o <<" ">> \o shape.day \o <<",", " ">> \o shape.year

OtherDateTexts ==
  { null, <<>>, <<"i", "n", "v", "a", "l", "i", "d", " ", "d", "a", "t", "e">>, <<"1", "3", " ", "u", "n", "k", "n", "o", "w", "n", " ", "2", "0", "2", "4">>, <<" ", "1", "3", " ", "m", "e", "i", " ", "2", "0", "2", "4", " ">> }

\* words that are no month name of the table
UnlistedMonthTexts ==
  { <<"u", "n", "k", "n", "o", "w", "n">>,
    <<"m", "a", "y">>,
    <<"C", "o", "n", "s", "t", "r", "u", "c", "t", "o", "r">>,
    <<"_", "_", "p", "r", "o", "t", "o", "_", "_">> }

\* the two shapes with a month name the table does not hold, written with
\* blanks around them or without
UnlistedMonthCalls ==
  { [fn |-> "formatDate",
     dateStr |-> pad \o DateTextOf([layout |-> l, day |-> d, monthText |-> mt,
                                    year |-> y]) \o pad,
     shape |-> [layout |-> "unlisted", day |-> d, monthText |-> mt, year |-> y,
                written |-> DateTextOf([layout |-> l, day |-> d,
                                        monthText |-> mt, year |-> y])]] :
      l \in {"dmy", "mdy"}, d \in DayTexts, mt \in UnlistedMonthTexts,
      y \in YearTexts, pad \in {<<>>, <<" ">>} }

\* texts of neither shape, each between the blanks it is written with
UnshapedTexts ==
  { <<"i", "n", "v", "a", "l", "i", "d", " ", "d", "a", "t", "e">>,
    <<"g", "e", "e", "n", " ", "d", "a", "t", "u", "m">>,
    <<"1", "3", " ", " ", "m", "e", "i", " ", "2", "0", "2", "4">>,
    <<"1", "3", "-", "0", "5", "-", "2", "0", "2", "4">>,
    <<"m", "e", "i", " ", "2", "0", "2", "4">>,
    <<"m", "e", "i", " ", "1", "3", " ", "2", "0", "2", "4">>,
    <<"x">> }

UnshapedCalls ==
  { [fn |-> "formatDate", dateStr |-> before \o t \o after,
     shape |-> [layout |-> "unshaped", written |-> t]] :
      t \in UnshapedTexts, before \in {<<>>, <<" ">>, <<" ", " ">>},
      after \in {<<>>, <<" ">>} }

DateCalls ==
  { [fn |-> "formatDate", dateStr |-> DateTextOf(sh), shape |-> sh] :
      sh \in { x \in DateShapes : x.monthText \in MonthTexts(x.month) } }
  \cup { [fn |-> "formatDate", dateStr |-> t, shape |-> [layout |-> "other"]] :
           t \in OtherDateTexts }
  \cup UnlistedMonthCalls
  \cup UnshapedCalls

StatusTexts ==
  { null,
    <<>>,
    <<"B", "e", "z", "o", "r", "g", "d", " ", "o", "p", " ", "1", "3", " ", "j", "a", "n", "u", "a", "r", "i">>,
    <<" ", "b", "e", "z", "o", "r", "g", "d", " ">>,
    <<"o", "p", " ", "3", " ", "m", "e", "i">>,
    <<"R", "e", "t", "o", "u", "r", " ", "v", "e", "r", "w", "e", "r", "k", "t">>,
    <<"T", "e", "r", "u", "g", "b", "e", "t", "a", "l", "i", "n", "g", " ", "i", "n", " ", "b", "e", "h", "a", "n", "d", "e", "l", "i", "n", "g">>,
    <<"n", "i", "e", "t", " ", "l", "e", "v", "e", "r", "b", "a", "a", "r">>,
    <<"W", "e", "r", "d", " ", "v", "e", "r", "w", "a", "c", "h", "t", " ", "o", "p", " ", "5", " ", "M", "e", "i">>,
    <<"P", "a", "k", "k", "e", "t", " ", "m", "o", "g", "e", "l", "i", "j", "k", " ", "z", "o", "e", "k", "g", "e", "r", "a", "a", "k", "t">>,
    <<"t", "e", "r", "u", "g", "b", "e", "t", "a", "a", "l", "d", " ", "n", "a", " ", "b", "e", "z", "o", "r", "g", "d", " ", "o", "p", " ", "9", " ", "d", "e", "c", "e", "m", "b", "e", "r">>,
    <<"o", "n", "d", "e", "r", "w", "e", "g">>,
    <<"v", "e", "r", "w", "a", "c", "h", "t", " ", "o", "m", " ", "5", " ", "u", "u", "r">> }

StatusCalls ==
  { [fn |-> "parseDeliveryStatus", statusStr |-> a, statusStr2 |-> b] :
      a \in StatusTexts, b \in StatusTexts }

FormatCallInit ==
  /\ call \in DateCalls \cup StatusCalls
  /\ result = <<>>
  /\ callPc = "called"
  /\ today \in Todays
  /\ CsvIdle
  /\ ShipIdle
  /\ PageIdle
  /\ BatchIdle
  /\ OrchIdle
  /\ ClientIdle

CallFormatDate ==
  /\ callPc = "called"
  /\ call.fn = "formatDate"
  /\ result' = formatDate(call.dateStr, today)
  /\ callPc' = "returned"
  /\ UNCHANGED <<call, today>>
  /\ UNCHANGED <<csvVars, shipVars, pageVars, batchVars, orchVars, clientVars>>

CallParseDeliveryStatus ==
  /\ callPc = "called"
  /\ call.fn = "parseDeliveryStatus"
  /\ \E r \in { parseDeliveryStatus(call.statusStr, call.statusStr2, today) } :
       /\ result' = [status |-> r.status, date |-> r.date]
       /\ console' = console \o r.logs
  /\ callPc' = "returned"
  /\ UNCHANGED <<call, today>>
  /\ UNCHANGED <<orders, orderGroups, records, groupIdx, csvPc, ordersOut,
                 previousRuns, unhandledRejections>>
  /\ UNCHANGED <<shipVars, pageVars, batchVars, orchVars, clientVars>>

FormatCallNext == CallFormatDate \/ CallParseDeliveryStatus

FormatCallSpec == FormatCallInit /\ [][FormatCallNext]_vars

-----------------------------------------------------------------------------
(* Properties of parseDeliveryStatus and formatDate                        *)

\* an absent input read as the empty text
TextOrEmpty(x) == IF x = null \/ x = undefined THEN <<>> ELSE x

\* the lowercased concatenation of the two status inputs, each without its
\* surrounding blanks, a blank between them
Concatenated ==
  toLowerCase(trim(TextOrEmpty(call.statusStr))) \o <<" ">>
  \o toLowerCase(trim(TextOrEmpty(call.statusStr2)))

ClaimedOrder ==
  << "Delivered", "Returned", "ProcessingRefund", "Undeliverable", "Expected",
     "PossiblyLost", "Refunded" >>

\* the categories, by index in ClaimedOrder, one of whose keywords the
\* concatenation contains
MatchingCategories ==
  { c \in 1..Len(ClaimedOrder) :
      \E g \in 1..Len(keywordGroups) :
        /\ keywordGroups[g].status = ClaimedOrder[c]
        /\ \E kw \in keywordGroups[g].keywords : includes(Concatenated, kw) }

\* C18 as claimed: parseDeliveryStatus returns the category of the first
\* keyword group, in the order Delivered, Returned, ProcessingRefund,
\* Undeliverable, Expected, PossiblyLost, Refunded, that has a keyword in the
\* lowercased concatenation of the two inputs, and returns Unknown, with an
\* event logged, when no group matches.
C18_FirstKeywordGroupWins ==
  Returned("parseDeliveryStatus") =>
    IF MatchingCategories = {}
    THEN /\ result.status = "Unknown"
         /\ \E i \in 1..Len(console) : console[i].text = "Unknown delivery status"
    ELSE \E c \in MatchingCategories :
           /\ \A d \in MatchingCategories : c <= d
           /\ result.status = ClaimedOrder[c]

\* C18 amended: when at least one of the two inputs is a non-empty string,
\* parseDeliveryStatus returns the category of the first keyword group, in
\* the claimed order, that has a keyword in the lowercased concatenation,
\* and Unknown with an event logged when no group matches; when both inputs
\* are empty or null it returns Unknown and logs nothing.
C18_FirstKeywordGroupWinsOnText ==
  Returned("parseDeliveryStatus") =>
    IF ~Truthy(call.statusStr) /\ ~Truthy(call.statusStr2)
    THEN result.status = "Unknown" /\ console = <<>>
    ELSE IF MatchingCategories = {}
    THEN /\ result.status = "Unknown"
         /\ \E i \in 1..Len(console) : console[i].text = "Unknown delivery status"
    ELSE \E c \in MatchingCategories :
           /\ \A d \in MatchingCategories : c <= d
           /\ result.status = ClaimedOrder[c]
           /\ console = <<>>

\* the text holds a keyword of Refunded before one of Delivered
C18_Witness ==
  /\ Returned("parseDeliveryStatus")
  /\ call.statusStr = null
  /\ MatchingCategories = {1, 7}
  /\ result.status = "Delivered"

\* every text of one or two digits
AllDayTexts ==
  { <<a>> : a \in Digits } \cup { <<a, b>> : a \in Digits, b \in Digits }

ZeroPadded(day) == IF Len(day) = 1 THEN <<"0">> \o day ELSE day

EndsWith(s, suffix) ==
  /\ Len(s) >= Len(suffix)
  /\ SubSeq(s, Len(s) - Len(suffix) + 1, Len(s)) = suffix

\* the concatenation ends with "<day> <monthName>", day being the whole run
\* of one or two digits before the month name
EndsWithDayMonth(day, m) ==
  /\ EndsWith(Concatenated, day \o <<" ">> \o months[m].name)
  /\ Len(day) = 1 =>
       \A d \in Digits :
         ~EndsWith(Concatenated, <<d>> \o day \o <<" ">> \o months[m].name)

\* C19 as claimed: when the concatenated status string ends with
\* "<day> <monthName>", the date returned is "<current year>-<MM>-<DD>", MM the
\* number of the named month and DD the zero-padded day; when it does not,
\* no date is returned.
C19_DeliveryDateInCurrentYear ==
  Returned("parseDeliveryStatus") =>
    IF \E day \in AllDayTexts : \E m \in 1..Len(months) : EndsWithDayMonth(day, m)
    THEN \E day \in AllDayTexts : \E m \in 1..Len(months) :
           /\ EndsWithDayMonth(day, m)
           /\ result.date = today.year \o Dash \o months[m].number \o Dash
                            \o ZeroPadded(day)
    ELSE result.date = undefined

\* the decimal digit of n, 0 <= n <= 9
DigitText(n) == CHOOSE c \in Digits : DigitVal(c) = n

TwoDigits(n) == <<DigitText(n \div 10), DigitText(n % 10)>>

\* C20: for "<day> <monthName> <year>" and "<monthName> <day>, <year>" with
\* the month name, in any letter case, one of the twelve of the table,
\* formatDate returns "<year>-<MM>-<DD>", MM the two-digit number of the
\* month and DD the day left-padded to two digits.
C20_FormatDateCanonical ==
  (Returned("formatDate") /\ call.shape.layout \in {"dmy", "mdy"}) =>
    result = call.shape.year \o Dash \o TwoDigits(call.shape.month) \o Dash
             \o ZeroPadded(call.shape.day)

\* "SEPTEMBER 1, 2024" gives "2024-09-01"
C20_Witness ==
  /\ Returned("formatDate")
  /\ call.shape.layout = "mdy"
  /\ call.shape.day = <<"1">>
  /\ call.shape.month = 9
  /\ call.dateStr[1] = "S" /\ call.dateStr[2] = "E"
  /\ result = <<"2", "0", "2", "4", "-", "0", "9", "-", "0", "1">>

\* C21: for a non-empty input that is of neither supported shape, or whose
\* month name the table does not hold, formatDate returns the input without
\* its surrounding blanks and otherwise unchanged.
C21_UnrecognisedReturnedTrimmed ==
  (Returned("formatDate") /\ call.shape.layout \in {"unlisted", "unshaped"}) =>
    result = call.shape.written

\* C22: formatDate of null or of the empty string returns the current date
\* as YYYY-MM-DD.
C22_AbsentGivesToday ==
  (Returned("formatDate") /\ (call.dateStr = null \/ call.dateStr = <<>>)) =>
    result = today.iso

\* formatDate("") on 3 November 2026
C22_Witness ==
  /\ Returned("formatDate")
  /\ call.dateStr = <<>>
  /\ today.year = <<"2", "0", "2", "6">>
  /\ result = <<"2", "0", "2", "6", "-", "1", "1", "-", "0", "3">>

-----------------------------------------------------------------------------
(* ScrapePricesStrategy.process                                            *)

\* lines 185-195: the orders kept by the filter, as indices of orders
RECURSIVE uniqueOrdersFrom_all(_, _, _)
uniqueOrdersFrom_all(os, i, processedOrderIds) ==
  IF i > Len(os) THEN <<>>
  ELSE <<i>> \o uniqueOrdersFrom_all(os, i + 1, processedOrderIds)

RECURSIVE uniqueOrdersFrom(_, _, _)
uniqueOrdersFrom(os, i, processedOrderIds) ==
  IF i > Len(os) THEN <<>>
  ELSE IF os[i].orderId \in processedOrderIds
  THEN uniqueOrdersFrom(os, i + 1, processedOrderIds)
  ELSE <<i>> \o uniqueOrdersFrom(os, i + 1, processedOrderIds \cup {os[i].orderId})

\* line 12: the selectors waitForSelector of line 206 waits for
shipmentsSelector ==
  { "[data-component=shipments]", ".shipment", "[data-component=purchasedItems]",
    ".a-box.a-spacing-base" }

\* waitForSelector(this.shipmentsSelector) resolves on this page
hasShipments(page) ==
  \E i \in 1..Len(page) : page[i].matches \cap shipmentsSelector # {}

\* extractShipmentElements (lines 244-282) as a function of the page: the
\* loop over shipmentSelectors from the k-th selector on
RECURSIVE selectorLoop(_, _, _)
selectorLoopAfter(page, k, after) ==
  IF foundAny(after.elements) THEN after.elements
  ELSE selectorLoop(page, k + 1, after)

selectorLoop(page, k, acc) ==
  IF k > Len(shipmentSelectors) THEN acc.elements
  ELSE selectorLoopAfter(page, k,
         forEachShipmentElement(acc, querySelectorAll(page, shipmentSelectors[k])))

extractShipmentElements(page) ==
  selectorLoop(page, 1, [elements |-> <<>>, processed |-> {}])

\* the markup of three shipment fragments
HtmlB01Priced == <<"<", "s", "o", "k", " ", "2", "2", ",", "9", "9", ">">>
HtmlB02TitleDa == <<"<", "d", "a", " ", "7", ">">>
HtmlBroken == <<"<", "<">>

\* new JSDOM(element) of line 50 and the queries on it: the fragment a string
\* of markup parses to
JSDOM(html) ==
  IF html = HtmlB01Priced THEN FragB01Priced
  ELSE IF html = HtmlB02TitleDa THEN FragB02TitleDa
  ELSE IF html = HtmlBroken THEN FragMalformed
  ELSE FragNoKeys

\* processShipmentElements (lines 31-181) as a function of its arguments: the
\* for loop from some fragment on, items and map as the earlier ones left them
RECURSIVE shipmentLoop(_, _, _)
shipmentLoopOn(merged, rest) == shipmentLoop(merged.items, merged.map, rest)

shipmentMerge(items, map, m, fields, rest) ==
  IF m > 0
  THEN shipmentLoopOn(mergeMatch(items, map, m, fields.extractedPrice,
                                 fields.itemQty), rest)
  ELSE shipmentLoop(items, map, rest)

shipmentMatch(items, map, fields, rest) ==
  shipmentMerge(items, map,
                IF attempted(fields)
                THEN matchingOrderItem(items, fields.productId, fields.itemTitle)
                ELSE 0,
                fields, rest)

shipmentLoop(items, map, elements) ==
  IF elements = <<>> THEN [items |-> items, map |-> map]
  ELSE IF JSDOM(Head(elements)).malformed
  THEN shipmentLoop(items, map, Tail(elements))
  ELSE shipmentMatch(items, map, extractFields(JSDOM(Head(elements)).body),
                     Tail(elements))

itemsReturned(after, refs) == [i \in 1..Len(refs) |-> after.items[refs[i]]]

processedItems(after) == itemsReturned(after, returnedItems(after.map, after.items))

processShipmentElements(elements, items) ==
  processedItems(shipmentLoop(items, <<>>, elements))

\* lines 216-219: the catch block is inside the for loop, which goes on with
\* the next of the n unique orders
resumeAfterCatch_rethrow(idx, n) == n

resumeAfterCatch(idx, n) == idx + 1

-----------------------------------------------------------------------------
(* The orders given to process and the pages the site serves               *)

MaxBatch == 3

BatchItemLists ==
  { << Item(TitleSok, <<" ", "B", "0", "1", " ">>, undefined) >>,
    << Item(TitleDas, B02, <<"€", "5">>), Item(TitleSok, B01, undefined) >> }

BatchOrders ==
  { [orderId |-> id, items |-> its, url |-> undefined] :
      id \in {Id1, Id2}, its \in BatchItemLists }

\* the order-details pages: one shipment with two fragments, one of them
\* twice; a box holding one broken and one unknown fragment; a page whose
\* only container is none of those waited for
OrderPages ==
  { << PageElement({shipmentSelectors[2]},
                   <<HtmlB01Priced, HtmlB02TitleDa, HtmlB01Priced>>, <<>>) >>,
    << PageElement({shipmentSelectors[4]}, <<HtmlBroken, <<"<", "p", ">">> >>, <<>>) >>,
    << PageElement({shipmentSelectors[5]}, <<>>, HtmlB01Priced) >> }

BatchInit ==
  /\ batch \in SeqsUpTo(BatchOrders, MaxBatch)
  /\ batchIn = batch
  /\ uniqueOrders = <<>>
  /\ orderIdx = 0
  /\ visits = <<>>
  /\ errorLog = <<>>
  /\ batchOut = <<>>
  /\ batchPc = "filter"
  /\ CsvIdle
  /\ ShipIdle
  /\ PageIdle
  /\ CallIdle
  /\ OrchIdle
  /\ ClientIdle

\* lines 184-198: the filter on the order ids
BatchFilter ==
  /\ batchPc = "filter"
  /\ uniqueOrders' = uniqueOrdersFrom(batch, 1, {})
  /\ batchPc' = "loop"
  /\ UNCHANGED <<batch, batchIn, orderIdx, visits, errorLog, batchOut>>
  /\ UNCHANGED <<csvVars, shipVars, pageVars, callVars, orchVars, clientVars>>

\* lines 201-219, an iteration in which goto (line 205), waitForSelector
\* (line 206) or content (line 209) rejects: the catch block logs the error.
\* order.url is assigned at line 207, after waitForSelector resolved.
BatchOrderFails ==
  /\ batchPc = "loop"
  /\ orderIdx < Len(uniqueOrders)
  /\ \E failed \in {"goto", "waitForSelector", "content"} :
     \E page \in OrderPages :
       /\ failed = "waitForSelector" <=> ~hasShipments(page)
       /\ visits' = Append(visits, [order |-> uniqueOrders[orderIdx + 1],
                                    failed |-> failed])
       /\ errorLog' = Append(errorLog, [order |-> uniqueOrders[orderIdx + 1],
                                        failed |-> failed])
       /\ batch' = IF failed = "content"
                   THEN [batch EXCEPT ![uniqueOrders[orderIdx + 1]].url =
                                         batch[uniqueOrders[orderIdx + 1]].orderId]
                   ELSE batch
  /\ orderIdx' = resumeAfterCatch(orderIdx, Len(uniqueOrders))
  /\ UNCHANGED <<batchIn, uniqueOrders, batchOut, batchPc>>
  /\ UNCHANGED <<csvVars, shipVars, pageVars, callVars, orchVars, clientVars>>

\* lines 201-215, an iteration in which nothing rejects: the page holds
\* shipments, its fragments are extracted and matched, order.items is replaced
BatchOrder ==
  /\ batchPc = "loop"
  /\ orderIdx < Len(uniqueOrders)
  /\ \E page \in { pg \in OrderPages : hasShipments(pg) } :
       batch' = [batch EXCEPT
                   ![uniqueOrders[orderIdx + 1]].url =
                      batch[uniqueOrders[orderIdx + 1]].orderId,
                   ![uniqueOrders[orderIdx + 1]].items =
                      processShipmentElements(
                        extractShipmentElements(page),
                        batch[uniqueOrders[orderIdx + 1]].items)]
  /\ visits' = Append(visits, [order |-> uniqueOrders[orderIdx + 1], failed |-> ""])
  /\ orderIdx' = orderIdx + 1
  /\ UNCHANGED <<batchIn, uniqueOrders, errorLog, batchOut, batchPc>>
  /\ UNCHANGED <<csvVars, shipVars, pageVars, callVars, orchVars, clientVars>>

\* line 223: return orders
BatchReturn ==
  /\ batchPc = "loop"
  /\ orderIdx >= Len(uniqueOrders)
  /\ batchOut' = batch
  /\ batchPc' = "done"
  /\ UNCHANGED <<batch, batchIn, uniqueOrders, orderIdx, visits, errorLog>>
  /\ UNCHANGED <<csvVars, shipVars, pageVars, callVars, orchVars, clientVars>>

BatchNext == BatchFilter \/ BatchOrderFails \/ BatchOrder \/ BatchReturn

BatchSpec == BatchInit /\ [][BatchNext]_vars

-----------------------------------------------------------------------------
(* Properties of ScrapePricesStrategy.process                              *)

\* the order of index i of the argument is the first with its orderId
FirstOccurrence(i) ==
  \A j \in 1..(i - 1) : batchIn[j].orderId # batchIn[i].orderId

\* the iterations that navigated to the order of index i
VisitsOf(i) == { v \in 1..Len(visits) : visits[v].order = i }

\* C23: when an iteration of process fails (navigation, waiting for the
\* shipments or reading the page), the failure is caught and logged, the
\* item list of that order is as it was before the call, and once process
\* has returned every later order has been handled as in a call without
\* failure: navigated to when it is the first with its orderId.
C23_FailureIsolatedPerOrder ==
  \A v \in 1..Len(visits) :
    visits[v].failed # "" =>
      /\ \E e \in 1..Len(errorLog) : errorLog[e] = visits[v]
      /\ batch[visits[v].order].items = batchIn[visits[v].order].items
      /\ batchPc = "done" =>
           /\ batchOut[visits[v].order].items = batchIn[visits[v].order].items
           /\ \A i \in (visits[v].order + 1)..Len(batchIn) :
                FirstOccurrence(i) => VisitsOf(i) # {}

\* the first of three orders fails, the third is enriched afterwards
C23_Witness ==
  /\ batchPc = "done"
  /\ Len(batchIn) = 3
  /\ visits[1].failed = "goto"
  /\ visits[Len(visits)].order = 3
  /\ visits[Len(visits)].failed = ""
  /\ batchOut[3].items # batchIn[3].items

\* C27: process returns the orders of its argument, as many and in the same
\* order; an order is navigated to exactly when it is the first with its
\* orderId, and then once; every later order with that orderId is returned
\* as it was given.
C27_FirstOccurrenceFetchedOnce ==
  batchPc = "done" =>
    /\ Len(batchOut) = Len(batchIn)
    /\ \A i \in 1..Len(batchIn) :
         /\ batchOut[i].orderId = batchIn[i].orderId
         /\ FirstOccurrence(i) => Cardinality(VisitsOf(i)) = 1
         /\ ~FirstOccurrence(i) => VisitsOf(i) = {} /\ batchOut[i] = batchIn[i]

\* the same orderId twice: the first order is enriched, the second is not
C27_Witness ==
  /\ batchPc = "done"
  /\ Len(batchIn) = 2
  /\ batchIn[1] = batchIn[2]
  /\ Len(visits) = 1
  /\ batchOut[1].items # batchIn[1].items
  /\ batchOut[2] = batchIn[2]

-----------------------------------------------------------------------------
(* exportOrders: OrderOrchestratorBuilder and OrderOrchestrator            *)

\* withShouldScrapeOrders and withShouldEnrichPrices (lines 34-46 of the
\* builder): scrape when the cache file does not exist or when forced
shouldScrape_forcedOnly(exists, forced) == forced

shouldScrape(exists, forced) == (~exists) \/ forced

existsSync(file) == file.exists

\* An order is [scrapedIn, pricedIn, url]: the run whose scrape of the order
\* overviews produced it, the run whose scrape of the order details enriched
\* it (0 for none), and its url ("absent", "URL" for a URL object, "string").
ScrapedOrder(run) == [scrapedIn |-> run, pricedIn |-> 0, url |-> "absent"]

\* JSON.parse(JSON.stringify(orders)): a URL object comes back as a string
jsonOrder(o) == [o EXCEPT !.url = IF @ = "URL" THEN "string" ELSE @]

stringify(os) == [i \in 1..Len(os) |-> jsonOrder(os[i])]

parse(file) == file.content

\* ScrapePricesStrategy.process on the orders, in run number run: every
\* order is navigated to; lines 207 and 215 set its url and its items
enrichedOrders(os, run) ==
  [i \in 1..Len(os) |-> [os[i] EXCEPT !.pricedIn = run, !.url = "URL"]]

needsSession(flags) == flags.orders \/ flags.prices

InRunLog(what) == \E i \in 1..Len(runLog) : runLog[i] = what

MaxRuns == 3
MaxOverviewPages == 2

\* a cache file left by earlier use of the program
OldCache == File(<< [scrapedIn |-> 0, pricedIn |-> 0, url |-> "absent"] >>)
OldPricesCache == File(<< [scrapedIn |-> 0, pricedIn |-> 0, url |-> "string"] >>)

OrchInit ==
  /\ cacheFiles \in [details : {NoFile, OldCache}, prices : {NoFile, OldPricesCache}]
  /\ runNo = 1
  /\ force = [orders |-> FALSE, prices |-> FALSE]
  /\ scrapeFlags = [orders |-> FALSE, prices |-> FALSE]
  /\ pageTracker = [page |-> FALSE, isLoggedIn |-> FALSE]
  /\ runLog = <<>>
  /\ orchOrders = <<>>
  /\ orchPc = "build"
  /\ filesAtBuild = cacheFiles
  /\ wroteBoth = FALSE
  /\ CsvIdle
  /\ ShipIdle
  /\ PageIdle
  /\ CallIdle
  /\ BatchIdle
  /\ ClientIdle

\* Main.ts lines 24-40: a new PageTracker, the builder with the two flags of
\* the environment, build()
OrchBuild ==
  /\ orchPc = "build"
  /\ \E fo \in BOOLEAN, fp \in BOOLEAN :
       /\ force' = [orders |-> fo, prices |-> fp]
       /\ scrapeFlags' =
            [orders |-> shouldScrape(existsSync(cacheFiles.details), fo),
             prices |-> shouldScrape(existsSync(cacheFiles.prices), fp)]
  /\ pageTracker' = [page |-> FALSE, isLoggedIn |-> FALSE]
  /\ filesAtBuild' = cacheFiles
  /\ runLog' = <<>>
  /\ orchOrders' = <<>>
  /\ orchPc' = "session"
  /\ UNCHANGED <<cacheFiles, runNo, wroteBoth>>
  /\ UNCHANGED <<csvVars, shipVars, pageVars, callVars, batchVars, clientVars>>

\* orechestrate lines 64-67 and ensureSession (lines 50-59)
OrchEnsureSession ==
  /\ orchPc = "session"
  /\ IF needsSession(scrapeFlags) /\ ~pageTracker.isLoggedIn
     THEN /\ pageTracker' = [page |-> TRUE, isLoggedIn |-> TRUE]
          /\ runLog' = runLog \o <<"createInitialPage", "login">>
     ELSE UNCHANGED <<pageTracker, runLog>>
  /\ orchPc' = "orders"
  /\ UNCHANGED <<cacheFiles, runNo, force, scrapeFlags, orchOrders, filesAtBuild,
                 wroteBoth>>
  /\ UNCHANGED <<csvVars, shipVars, pageVars, callVars, batchVars, clientVars>>

\* ensureSession rejecting: the page does not load, the login fails, or the
\* pagination of the orders page does not appear in time
OrchSessionFails ==
  /\ orchPc = "session"
  /\ needsSession(scrapeFlags) /\ ~pageTracker.isLoggedIn
  /\ \E failed \in {"createInitialPage", "login", "waitForSelector"} :
       /\ pageTracker' = [page |-> TRUE, isLoggedIn |-> failed = "waitForSelector"]
       /\ runLog' =
            CASE failed = "createInitialPage" ->
                   Append(runLog, "createInitialPage failed")
              [] failed = "login" ->
                   runLog \o <<"createInitialPage", "login failed">>
              [] failed = "waitForSelector" ->
                   runLog \o <<"createInitialPage", "login", "waitForSelector failed">>
  /\ orchPc' = "failed"
  /\ UNCHANGED <<cacheFiles, runNo, force, scrapeFlags, orchOrders, filesAtBuild,
                 wroteBoth>>
  /\ UNCHANGED <<csvVars, shipVars, pageVars, callVars, batchVars, clientVars>>

\* lines 70-71 and executeScrapeOrders (lines 23-39): the orders of every
\* overview page, written to the order-details cache
OrchScrapeOrders ==
  /\ orchPc = "orders"
  /\ scrapeFlags.orders
  /\ \E pages \in 1..MaxOverviewPages :
     \E scraped \in { [i \in 1..pages |-> ScrapedOrder(runNo)] } :
       /\ cacheFiles' = [cacheFiles EXCEPT !.details = File(stringify(scraped))]
       /\ orchOrders' = orchOrders \o scraped
  /\ runLog' = runLog \o <<"scrapeOrders", "write details">>
  /\ orchPc' = "prices"
  /\ UNCHANGED <<runNo, force, scrapeFlags, pageTracker, filesAtBuild, wroteBoth>>
  /\ UNCHANGED <<csvVars, shipVars, pageVars, callVars, batchVars, clientVars>>

\* executeScrapeOrders rejecting (getPaginationLinks, evaluate or goto):
\* nothing is written
OrchScrapeOrdersFails ==
  /\ orchPc = "orders"
  /\ scrapeFlags.orders
  /\ runLog' = Append(runLog, "scrapeOrders failed")
  /\ orchPc' = "failed"
  /\ UNCHANGED <<cacheFiles, runNo, force, scrapeFlags, pageTracker, orchOrders,
                 filesAtBuild, wroteBoth>>
  /\ UNCHANGED <<csvVars, shipVars, pageVars, callVars, batchVars, clientVars>>

\* lines 72-74: the orders of the order-details cache; readFileSync throws
\* when there is no file
OrchReadOrders ==
  /\ orchPc = "orders"
  /\ ~scrapeFlags.orders
  /\ IF existsSync(cacheFiles.details)
     THEN /\ orchOrders' = orchOrders \o parse(cacheFiles.details)
          /\ runLog' = Append(runLog, "read details")
          /\ orchPc' = "prices"
     ELSE /\ runLog' = Append(runLog, "read details failed")
          /\ orchPc' = "failed"
          /\ UNCHANGED orchOrders
  /\ UNCHANGED <<cacheFiles, runNo, force, scrapeFlags, pageTracker, filesAtBuild,
                 wroteBoth>>
  /\ UNCHANGED <<csvVars, shipVars, pageVars, callVars, batchVars, clientVars>>

\* lines 77-78 and executeEnrichWithPrices (lines 41-48)
OrchEnrichPrices ==
  /\ orchPc = "prices"
  /\ scrapeFlags.prices
  /\ orchOrders' = enrichedOrders(orchOrders, runNo)
  /\ cacheFiles' = [cacheFiles EXCEPT
                      !.prices = File(stringify(enrichedOrders(orchOrders, runNo)))]
  /\ runLog' = runLog \o <<"scrapePrices", "write prices">>
  /\ orchPc' = "return"
  /\ UNCHANGED <<runNo, force, scrapeFlags, pageTracker, filesAtBuild, wroteBoth>>
  /\ UNCHANGED <<csvVars, shipVars, pageVars, callVars, batchVars, clientVars>>

\* lines 79-81: orders is replaced by the content of the prices cache
OrchReadPrices ==
  /\ orchPc = "prices"
  /\ ~scrapeFlags.prices
  /\ IF existsSync(cacheFiles.prices)
     THEN /\ orchOrders' = parse(cacheFiles.prices)
          /\ runLog' = Append(runLog, "read prices")
          /\ orchPc' = "return"
     ELSE /\ runLog' = Append(runLog, "read prices failed")
          /\ orchPc' = "failed"
          /\ UNCHANGED orchOrders
  /\ UNCHANGED <<cacheFiles, runNo, force, scrapeFlags, pageTracker, filesAtBuild,
                 wroteBoth>>
  /\ UNCHANGED <<csvVars, shipVars, pageVars, callVars, batchVars, clientVars>>

\* line 83: return orders
OrchReturn ==
  /\ orchPc = "return"
  /\ orchPc' = "returned"
  /\ UNCHANGED <<cacheFiles, runNo, force, scrapeFlags, pageTracker, runLog,
                 orchOrders, filesAtBuild, wroteBoth>>
  /\ UNCHANGED <<csvVars, shipVars, pageVars, callVars, batchVars, clientVars>>

\* Main.ts lines 48-54: the error is logged, pageTracker.dispose(); then the
\* program is run again
OrchRunAgain ==
  /\ orchPc \in {"returned", "failed"}
  /\ runNo < MaxRuns
  /\ runNo' = runNo + 1
  /\ wroteBoth' = (wroteBoth \/ (InRunLog("write details") /\ InRunLog("write prices")))
  /\ pageTracker' = [page |-> FALSE, isLoggedIn |-> FALSE]
  /\ orchPc' = "build"
  /\ UNCHANGED <<cacheFiles, force, scrapeFlags, runLog, orchOrders, filesAtBuild>>
  /\ UNCHANGED <<csvVars, shipVars, pageVars, callVars, batchVars, clientVars>>

OrchNext ==
  \/ OrchBuild
  \/ OrchEnsureSession
  \/ OrchSessionFails
  \/ OrchScrapeOrders
  \/ OrchScrapeOrdersFails
  \/ OrchReadOrders
  \/ OrchEnrichPrices
  \/ OrchReadPrices
  \/ OrchReturn
  \/ OrchRunAgain

OrchSpec == OrchInit /\ [][OrchNext]_vars

-----------------------------------------------------------------------------
(* Properties of the orchestration                                         *)

\* the builder of the current run has run
Built == orchPc \notin {"idle", "build"}

\* the position in runLog of the first entry what, 0 when there is none
FirstInRunLog(what) ==
  IF InRunLog(what) THEN CHOOSE i \in 1..Len(runLog) :
                           /\ runLog[i] = what
                           /\ \A j \in 1..(i - 1) : runLog[j] # what
  ELSE 0

\* C25 as claimed: a run with FORCE_SCRAPE_ORDERS set that returns has
\* scraped the order overviews, and every order it returns comes from that
\* scrape, whatever the cache files and FORCE_SCRAPE_PRICES.
C25_ForcedScrapeReturnsNewOrders ==
  (orchPc = "returned" /\ force.orders) =>
    /\ InRunLog("scrapeOrders")
    /\ \A i \in 1..Len(orchOrders) : orchOrders[i].scrapedIn = runNo

\* C26: (a) in a run after one that wrote both cache files, with neither
\* flag set, no page is opened, nobody logs in, nothing is scraped, and the
\* orders returned are those read from the prices cache; (b) a cache file
\* missing when the run starts sets the flag of its scrape, a run that
\* returns has then performed that scrape, and every scrape of a run comes
\* after the login of that run.
C26_CacheUsedWhenAvailable ==
  Built =>
    /\ (wroteBoth /\ ~force.orders /\ ~force.prices) =>
         /\ ~pageTracker.page
         /\ \A i \in 1..Len(runLog) : runLog[i] \in {"read details", "read prices"}
         /\ orchPc = "returned" => orchOrders = parse(cacheFiles.prices)
    /\ ~existsSync(filesAtBuild.details) =>
         /\ scrapeFlags.orders
         /\ orchPc = "returned" => InRunLog("scrapeOrders")
    /\ ~existsSync(filesAtBuild.prices) =>
         /\ scrapeFlags.prices
         /\ orchPc = "returned" => InRunLog("scrapePrices")
    /\ \A what \in {"scrapeOrders", "scrapeOrders failed", "scrapePrices"} :
         InRunLog(what) =>
           /\ InRunLog("login")
           /\ FirstInRunLog("login") < FirstInRunLog(what)

\* the third run reads both caches the first run wrote, without a browser
C26_Witness ==
  /\ orchPc = "returned"
  /\ runNo = 3
  /\ wroteBoth
  /\ ~force.orders /\ ~force.prices
  /\ runLog = <<"read details", "read prices">>
  /\ \A i \in 1..Len(orchOrders) : orchOrders[i].pricedIn = 1
  /\ Len(orchOrders) = 2

-----------------------------------------------------------------------------
(* GenerateCSVPocketsmithStrategy.process (Main.ts)                        *)

DigitChar(d) ==
  CASE d = 0 -> "0" [] d = 1 -> "1" [] d = 2 -> "2" [] d = 3 -> "3"
    [] d = 4 -> "4" [] d = 5 -> "5" [] d = 6 -> "6" [] d = 7 -> "7"
    [] d = 8 -> "8" [] d = 9 -> "9"

\* the decimal digits of a natural number
RECURSIVE ToDigits(_)
ToDigits(n) ==
  IF n < 10 THEN <<DigitChar(n)>>
  ELSE Append(ToDigits(n \div 10), DigitChar(n % 10))

\* Number.prototype.toFixed(2) on a fixed-point number: the sign, the
\* integer digits, a period and two fraction digits, rounded to the nearest
\* hundredth (a tie, which toFixed settles on the binary value of the
\* number, is rounded away from zero here)
toFixed2(n) ==
  (IF n < 0 THEN <<"-">> ELSE <<>>)
  \o ToDigits(RoundDiv(Abs(n), 10) \div 100)
  \o <<".">>
  \o <<DigitChar((RoundDiv(Abs(n), 10) % 100) \div 10),
       DigitChar(RoundDiv(Abs(n), 10) % 10)>>

\* lines 273-304, the fields that depend on the amounts
createPocketsmithCsvRecord(item, itemPrice, orderTotal) ==
  [amount |-> toFixed2(itemPrice),
   currency |-> "EUR",
   quantity |-> parseInt(item.itemQty),
   orderNumber |-> item.orderId,
   orderTotal |-> toFixed2(orderTotal)]

\* lines 229-245, from index i on
RECURSIVE pocketsmithDistributeLoop(_, _, _, _, _)
pocketsmithDistributeLoop(i, unpriced, remaining, distributedAmount, orderTotal) ==
  IF i >= Len(unpriced) THEN <<>>
  ELSE <<createPocketsmithCsvRecord(
           unpriced[i + 1],
           itemAmount(i, Len(unpriced), remaining, distributedAmount),
           orderTotal)>>
       \o pocketsmithDistributeLoop(
            i + 1, unpriced, remaining,
            IF i = Len(unpriced) - 1 THEN distributedAmount
            ELSE distributedAmount
                 + itemAmount(i, Len(unpriced), remaining, distributedAmount),
            orderTotal)

\* lines 217-226: the records of the items with a price
pocketsmithPricedRecords(priced, orderTotal) ==
  [i \in 1..Len(priced) |->
     createPocketsmithCsvRecord(priced[i],
                                Times(parseInt(priced[i].itemPrice),
                                      parseInt(priced[i].itemQty)),
                                orderTotal)]

\* lines 198-246: the records one iteration of the loop over the groups pushes
pocketsmithGroupRecords(items) ==
  pocketsmithPricedRecords(itemsWithPrices(items), parseInt(items[1].orderTotal))
  \o pocketsmithDistributeLoop(
       0, itemsWithoutPrices(items),
       remainingAmount(parseInt(items[1].orderTotal),
                       knownPricesTotal(itemsWithPrices(items))),
       0, parseInt(items[1].orderTotal))

MaxUnpriced == 5

PocketsmithTotals ==
  { <<"€", " ", "1", "0", ",", "0", "2">>,     \* 10.02
    <<"€", " ", "3", "1", ",", "0", "0">>,     \* 31.00
    <<"0", ",", "0", "2">>,     \* 0.02
    <<" ", "1", "0", " ">> }    \* 10

PocketsmithPricedPrefixes ==
  { <<>>,
    <<CsvItem(<<"€", "5", ",", "0", "0">>, <<"1">>)>>,     \* 5.00
    <<CsvItem(<<"4", "0">>, <<"1">>)>> }    \* 40

PocketsmithMainOrders ==
  { CsvOrder(Id1, t, pre \o [i \in 1..k |-> CsvItem(undefined, <<"1">>)]) :
      t \in PocketsmithTotals, pre \in PocketsmithPricedPrefixes,
      k \in 1..MaxUnpriced }

PocketsmithSiblingOrders ==
  { CsvOrder(Id2, <<" ", "1", "0", " ">>, <<CsvItem(undefined, <<"1">>)>>),
    CsvOrder(Id2, undefined, <<CsvItem(undefined, <<"1">>)>>) }

PocketsmithBatches ==
  { <<m>> : m \in PocketsmithMainOrders }
  \cup { <<m, o>> : m \in PocketsmithMainOrders, o \in PocketsmithSiblingOrders }

PocketsmithInit ==
  /\ orders \in PocketsmithBatches
  /\ orderGroups = <<>>
  /\ records = <<>>
  /\ groupIdx = 0
  /\ csvPc = "collect"
  /\ console = <<>>
  /\ ordersOut = <<>>
  /\ previousRuns = <<>>
  /\ unhandledRejections = <<>>
  /\ ShipIdle
  /\ PageIdle
  /\ CallIdle
  /\ BatchIdle
  /\ OrchIdle
  /\ ClientIdle

\* lines 139-179: the same pass over the orders as the Toshl strategy, then
\* groupItemsByOrder
PocketsmithCollect ==
  /\ csvPc = "collect"
  /\ orderGroups' = groupItemsByOrder(collectOrderItems(orders))
  /\ unhandledRejections' = rejectedCallbacks(orders, 1)
  /\ console' = Append(console, Log("orderItems"))
  /\ csvPc' = "allocate"
  /\ UNCHANGED <<orders, records, groupIdx, ordersOut, previousRuns>>
  /\ UNCHANGED <<shipVars, pageVars, callVars, batchVars, orchVars, clientVars>>

\* lines 198-246: one iteration of the loop over Object.entries(orderGroups)
PocketsmithAllocateGroup ==
  /\ csvPc = "allocate"
  /\ groupIdx < Len(orderGroups)
  /\ records' = records \o pocketsmithGroupRecords(orderGroups[groupIdx + 1].items)
  /\ groupIdx' = groupIdx + 1
  /\ UNCHANGED <<orders, orderGroups, csvPc, console, ordersOut, previousRuns,
                 unhandledRejections>>
  /\ UNCHANGED <<shipVars, pageVars, callVars, batchVars, orchVars, clientVars>>

\* lines 248-251: csvWriter.writeRecords(records); return orders
PocketsmithWriteRecords ==
  /\ csvPc = "allocate"
  /\ groupIdx = Len(orderGroups)
  /\ console' = console \o <<Log("CSV file written successfully"),
                              Log("Generating CSV for orders")>>
  /\ ordersOut' = orders
  /\ csvPc' = "done"
  /\ UNCHANGED <<orders, orderGroups, records, groupIdx, previousRuns,
                 unhandledRejections>>
  /\ UNCHANGED <<shipVars, pageVars, callVars, batchVars, orchVars, clientVars>>

\* the rejected promises of the forEach callbacks, reported at the await of
\* line 248 by a runtime that ends the program on an unhandled rejection
PocketsmithUnhandledRejection ==
  /\ csvPc = "allocate"
  /\ groupIdx = Len(orderGroups)
  /\ unhandledRejections # <<>>
  /\ csvPc' = "terminated"
  /\ UNCHANGED <<orders, orderGroups, records, groupIdx, console, ordersOut,
                 previousRuns, unhandledRejections>>
  /\ UNCHANGED <<shipVars, pageVars, callVars, batchVars, orchVars, clientVars>>

PocketsmithNext ==
  \/ PocketsmithCollect
  \/ PocketsmithAllocateGroup
  \/ PocketsmithWriteRecords
  \/ PocketsmithUnhandledRejection

PocketsmithSpec == PocketsmithInit /\ [][PocketsmithNext]_vars

-----------------------------------------------------------------------------
(* Properties of the Pocketsmith export                                    *)

\* the sum of the amounts written for one order, read back from the file
writtenSum(recs, orderId) ==
  SumSeq([i \in 1..Len(recs) |->
            IF recs[i].orderNumber = orderId
            THEN parseFloat(recs[i].amount).value ELSE 0])

Cent == Scale \div 100

\* C28 as claimed: once the records are written, for every order with at
\* least one item without price whose known prices do not exceed its total,
\* the written amounts sum to the total within 0.01, however many items
\* have no price.
C28_WrittenAmountsSumToTotal ==
  csvPc = "done" =>
    \A g \in 1..Len(orderGroups) :
      ( /\ itemsWithoutPrices(orderGroups[g].items) # <<>>
        /\ knownPricesTotal(itemsWithPrices(orderGroups[g].items))
             <= parseInt(orderGroups[g].items[1].orderTotal) ) =>
        Abs(writtenSum(records, orderGroups[g].orderId)
            - parseInt(orderGroups[g].items[1].orderTotal)) <= Cent

-----------------------------------------------------------------------------
(* PocketSmithClient: splitAmazonTransaction and processAmazonOrderItems   *)

\* lines 494-499
isAmazonTransaction(transaction) ==
  \/ includes(toLowerCase(transaction.payee), <<"a", "m", "a", "z", "o", "n">>)
  \/ IF transaction.note = undefined THEN FALSE
     ELSE includes(toLowerCase(transaction.note), <<"a", "m", "a", "z", "o", "n">>)

\* a request of the axios instance and whether it succeeded; id is the
\* transaction of a DELETE /transactions/{id}, 0 otherwise
Request(method, path, id, ok) ==
  [method |-> method, path |-> path, id |-> id, ok |-> ok]

\* what DELETE /transactions/{id} leaves of the transactions of the account
deleteTransaction_keep(transactions, id) == transactions

deleteTransaction(transactions, id) ==
  SelectSeq(transactions, LAMBDA t : t.id # id)

\* categoryCache[name], 0 when the cache has no such key: the code tests
\* and uses the value for truthiness only before it is set
cacheGet(cache, name) ==
  IF \E i \in 1..Len(cache) : cache[i].name = name
  THEN cache[CHOOSE i \in 1..Len(cache) : cache[i].name = name].id
  ELSE 0

cacheSet(cache, name, id) ==
  IF \E i \in 1..Len(cache) : cache[i].name = name
  THEN [i \in 1..Len(cache) |->
          IF cache[i].name = name THEN [cache[i] EXCEPT !.id = id] ELSE cache[i]]
  ELSE Append(cache, [name |-> name, id |-> id])

\* categories.find(c => c.title.toLowerCase() === name.toLowerCase()): the
\* id of the first such category, 0 when there is none
categoryIdByTitle(categories, name) ==
  IF \E i \in 1..Len(categories) :
       toLowerCase(categories[i].title) = toLowerCase(name)
  THEN categories[CHOOSE i \in 1..Len(categories) :
         /\ toLowerCase(categories[i].title) = toLowerCase(name)
         /\ \A j \in 1..(i - 1) :
              toLowerCase(categories[j].title) # toLowerCase(name)].id
  ELSE 0

\* findOrCreateCategory (lines 434-465) once GET /categories has answered:
\* the id returned, the account afterwards and the requests issued; a
\* rejected POST /categories is caught and answered with the id of
\* "uncategorized", or 0
findOrCreateCategory(remote, categoryName, postOk) ==
  IF categoryIdByTitle(remote.categories, categoryName) # 0
  THEN [id |-> categoryIdByTitle(remote.categories, categoryName),
        remote |-> remote,
        requests |-> <<Request("GET", "/categories", 0, TRUE)>>]
  ELSE IF postOk
  THEN [id |-> remote.nextId,
        remote |-> [remote EXCEPT
                      !.categories = Append(@, [id |-> remote.nextId,
                                                title |-> categoryName]),
                      !.nextId = @ + 1],
        requests |-> <<Request("GET", "/categories", 0, TRUE),
                       Request("POST", "/categories", 0, TRUE)>>]
  ELSE [id |-> categoryIdByTitle(remote.categories, <<"u", "n", "c", "a", "t", "e", "g", "o", "r", "i", "z", "e", "d">>),
        remote |-> remote,
        requests |-> <<Request("GET", "/categories", 0, TRUE),
                       Request("POST", "/categories", 0, FALSE)>>]

\* lines 545-548 and 635-638: the category has to be looked up
needsLookup(cache, item) ==
  Truthy(item.category) /\ cacheGet(cache, item.category) = 0

\* lines 545-550: the account, the cache and the requests after the lookup
categoryStep(remote, cache, item, postOk) ==
  IF needsLookup(cache, item)
  THEN [remote |-> findOrCreateCategory(remote, item.category, postOk).remote,
        cache |-> cacheSet(cache, item.category,
                           findOrCreateCategory(remote, item.category, postOk).id),
        requests |-> findOrCreateCategory(remote, item.category, postOk).requests]
  ELSE [remote |-> remote, cache |-> cache, requests |-> <<>>]

\* categoryId of lines 543-550: <<>> for undefined, <<n>> for the number n
categoryIdOf(cache, item) ==
  IF Truthy(item.category) THEN <<cacheGet(cache, item.category)>> ELSE <<>>

\* the labels of the transactions each method creates (lines 560 and 650)
labelsOf(fn) ==
  IF fn = "splitAmazonTransaction" THEN <<"amazon", "imported", "split">>
  ELSE <<"amazon", "imported">>

\* the body of the POST of lines 554-561 and 644-651
newTransaction(item, categoryId, labels) ==
  [payee |-> <<"A", "m", "a", "z", "o", "n", " ", "-", " ">>
             \o (IF Truthy(item.category) THEN item.category ELSE <<"S", "h", "o", "p", "p", "i", "n", "g">>),
   amount |-> 0 - Abs(item.amount),
   category_id |-> categoryId,
   note |-> item.description,
   labels |-> labels]

\* the account after a successful POST .../transactions: the server gives
\* the transaction an id
posted(remote, body) ==
  [remote EXCEPT
     !.transactions = Append(@, [id |-> remote.nextId,
                                 payee |-> body.payee,
                                 amount |-> body.amount,
                                 category_id |-> body.category_id,
                                 note |-> body.note,
                                 labels |-> body.labels]),
     !.nextId = @ + 1]

\* result.created of the dry-run branch (lines 566 and 656)
dryRunCreated_none(orderItems) == 0

dryRunCreated(orderItems) == Len(orderItems)

MaxSplitItems == 3

ClientTransaction(id, payee, note) ==
  [id |-> id, payee |-> payee, amount |-> 0 - 57 * Scale, category_id |-> <<>>,
   note |-> note, labels |-> <<>>]

ClientItem(description, amount, category) ==
  [description |-> description, amount |-> amount, category |-> category]

ClientItemPool ==
  { ClientItem(<<"s", "o", "k">>, 12 * Scale, undefined),
    ClientItem(<<"b", "o", "o", "k">>, 0 - 5 * Scale, <<"B", "o", "o", "k", "s">>),
    ClientItem(<<"t", "o", "y">>, 40 * Scale, <<"T", "o", "y", "s">>) }

FirstNewId == 10

\* the accounts: transactions some of which are Amazon's by payee or by
\* note, and categories with or without "Uncategorized"
ClientRemotes ==
  { [transactions |-> << ClientTransaction(1, <<"A", "M", "A", "Z", "O", "N", " ", "E", "U">>, undefined),
                         ClientTransaction(2, <<"B", "a", "k", "e", "r", "y">>, <<"A", "m", "a", "z", "o", "n", " ", "o", "r", "d", "e", "r">>) >>,
     categories |-> << [id |-> 7, title |-> <<"b", "o", "o", "k", "s">>],
                       [id |-> 9, title |-> <<"U", "n", "c", "a", "t", "e", "g", "o", "r", "i", "z", "e", "d">>] >>,
     nextId |-> FirstNewId],
    [transactions |-> << ClientTransaction(1, <<"B", "a", "k", "e", "r", "y">>, undefined),
                         ClientTransaction(2, <<"A", "m", "a", "z", "o", "n", " ", "P", "a", "y", "m", "e", "n", "t", "s">>, <<>>),
                         ClientTransaction(3, <<"a", "m", "z", "n">>, <<"A", "M", "A", "Z", "O", "N", " ", "r", "e", "f", "u", "n", "d">>) >>,
     categories |-> << [id |-> 7, title |-> <<"b", "o", "o", "k", "s">>] >>,
     nextId |-> FirstNewId] }

ClientOrderItems == SeqsUpTo(ClientItemPool, MaxSplitItems)

\* the calls: splitAmazonTransaction on a transaction of the account, and
\* processAmazonOrderItems with its options
ClientCalls(remote) ==
  { [fn |-> "splitAmazonTransaction", transaction |-> remote.transactions[t],
     orderItems |-> its, dryRun |-> dry, deleteExisting |-> FALSE] :
      t \in { i \in 1..Len(remote.transactions) :
                isAmazonTransaction(remote.transactions[i]) },
      its \in ClientOrderItems, dry \in BOOLEAN }
  \cup
  { [fn |-> "processAmazonOrderItems", transaction |-> NoTransaction,
     orderItems |-> its, dryRun |-> dry, deleteExisting |-> del] :
      its \in ClientOrderItems, dry \in BOOLEAN, del \in BOOLEAN }

\* an initialized client, called once
ClientInit ==
  /\ psRemote \in ClientRemotes
  /\ psCall \in ClientCalls(psRemote)
  /\ psRequests = <<>>
  /\ psIdx = 0
  /\ psPc = (IF psCall.fn = "splitAmazonTransaction" THEN "delete" ELSE "find")
  /\ psResult = [deleted |-> 0, created |-> 0]
  /\ categoryCache = <<>>
  /\ amazonTransactions = <<>>
  /\ dryRunResult = <<>>
  /\ psFailure = [request |-> "", item |-> 0]
  /\ CsvIdle
  /\ ShipIdle
  /\ PageIdle
  /\ CallIdle
  /\ BatchIdle
  /\ OrchIdle

\* splitAmazonTransaction lines 526-532
ClientDeleteOriginal ==
  /\ psPc = "delete"
  /\ IF psCall.dryRun
     THEN UNCHANGED <<psRemote, psRequests>>
     ELSE /\ psRemote' = [psRemote EXCEPT !.transactions =
                            deleteTransaction(@, psCall.transaction.id)]
          /\ psRequests' = Append(psRequests,
               Request("DELETE", "/transactions", psCall.transaction.id, TRUE))
  /\ psResult' = [psResult EXCEPT !.deleted = 1]
  /\ psPc' = "create"
  /\ UNCHANGED <<psCall, psIdx, categoryCache, amazonTransactions, dryRunResult,
                 psFailure>>
  /\ UNCHANGED <<csvVars, shipVars, pageVars, callVars, batchVars, orchVars>>

\* line 527 rejecting: the request fails and the call is rejected
ClientDeleteOriginalFails ==
  /\ psPc = "delete"
  /\ ~psCall.dryRun
  /\ psRequests' = Append(psRequests,
       Request("DELETE", "/transactions", psCall.transaction.id, FALSE))
  /\ psFailure' = [request |-> "deleteTransaction", item |-> 0]
  /\ psPc' = "rejected"
  /\ UNCHANGED <<psRemote, psCall, psIdx, psResult, categoryCache,
                 amazonTransactions, dryRunResult>>
  /\ UNCHANGED <<csvVars, shipVars, pageVars, callVars, batchVars, orchVars>>

\* processAmazonOrderItems lines 595-625 up to the loop of line 615
ClientFindExisting ==
  /\ psPc = "find"
  /\ IF psCall.deleteExisting
     THEN /\ psRequests' = Append(psRequests,
               Request("GET", "/transaction_accounts/transactions", 0, TRUE))
          /\ amazonTransactions' =
               SelectSeq(psRemote.transactions, isAmazonTransaction)
          /\ psResult' =
               IF psCall.dryRun
               THEN [psResult EXCEPT !.deleted =
                       Len(SelectSeq(psRemote.transactions, isAmazonTransaction))]
               ELSE psResult
          /\ psPc' =
               IF psCall.dryRun
                  \/ SelectSeq(psRemote.transactions, isAmazonTransaction) = <<>>
               THEN "create" ELSE "deleteLoop"
     ELSE /\ psPc' = "create"
          /\ UNCHANGED <<psRequests, amazonTransactions, psResult>>
  /\ UNCHANGED <<psRemote, psCall, psIdx, categoryCache, dryRunResult, psFailure>>
  /\ UNCHANGED <<csvVars, shipVars, pageVars, callVars, batchVars, orchVars>>

\* line 602 rejecting
ClientFindExistingFails ==
  /\ psPc = "find"
  /\ psCall.deleteExisting
  /\ psRequests' = Append(psRequests,
       Request("GET", "/transaction_accounts/transactions", 0, FALSE))
  /\ psFailure' = [request |-> "getTransactions", item |-> 0]
  /\ psPc' = "rejected"
  /\ UNCHANGED <<psRemote, psCall, psIdx, psResult, categoryCache,
                 amazonTransactions, dryRunResult>>
  /\ UNCHANGED <<csvVars, shipVars, pageVars, callVars, batchVars, orchVars>>

\* lines 615-619: one iteration of the loop over amazonTransactions
ClientDeleteExisting ==
  /\ psPc = "deleteLoop"
  /\ psIdx < Len(amazonTransactions)
  /\ psRemote' = [psRemote EXCEPT !.transactions =
                    deleteTransaction(@, amazonTransactions[psIdx + 1].id)]
  /\ psRequests' = Append(psRequests,
       Request("DELETE", "/transactions", amazonTransactions[psIdx + 1].id, TRUE))
  /\ psResult' = [psResult EXCEPT !.deleted = @ + 1]
  /\ psIdx' = (IF psIdx + 1 = Len(amazonTransactions) THEN 0 ELSE psIdx + 1)
  /\ psPc' = (IF psIdx + 1 = Len(amazonTransactions) THEN "create" ELSE "deleteLoop")
  /\ UNCHANGED <<psCall, categoryCache, amazonTransactions, dryRunResult, psFailure>>
  /\ UNCHANGED <<csvVars, shipVars, pageVars, callVars, batchVars, orchVars>>

\* line 617 rejecting
ClientDeleteExistingFails ==
  /\ psPc = "deleteLoop"
  /\ psIdx < Len(amazonTransactions)
  /\ psRequests' = Append(psRequests,
       Request("DELETE", "/transactions", amazonTransactions[psIdx + 1].id, FALSE))
  /\ psFailure' = [request |-> "deleteTransaction", item |-> psIdx + 1]
  /\ psPc' = "rejected"
  /\ UNCHANGED <<psRemote, psCall, psIdx, psResult, categoryCache,
                 amazonTransactions, dryRunResult>>
  /\ UNCHANGED <<csvVars, shipVars, pageVars, callVars, batchVars, orchVars>>

\* lines 541-564 and 631-654: one iteration of the loop over orderItems
ClientCreateItem ==
  /\ psPc = "create"
  /\ ~psCall.dryRun
  /\ psIdx < Len(psCall.orderItems)
  /\ \E postOk \in (IF needsLookup(categoryCache, psCall.orderItems[psIdx + 1])
                     /\ categoryIdByTitle(psRemote.categories,
                                          psCall.orderItems[psIdx + 1].category) = 0
                    THEN BOOLEAN ELSE {TRUE}) :
     \E step \in { categoryStep(psRemote, categoryCache,
                                psCall.orderItems[psIdx + 1], postOk) } :
       /\ categoryCache' = step.cache
       /\ psRemote' = posted(step.remote,
            newTransaction(psCall.orderItems[psIdx + 1],
                           categoryIdOf(step.cache, psCall.orderItems[psIdx + 1]),
                           labelsOf(psCall.fn)))
       /\ psRequests' = psRequests \o step.requests
            \o <<Request("POST", "/transaction_accounts/transactions", 0, TRUE)>>
  /\ psResult' = [psResult EXCEPT !.created = @ + 1]
  /\ psIdx' = psIdx + 1
  /\ UNCHANGED <<psCall, psPc, amazonTransactions, dryRunResult, psFailure>>
  /\ UNCHANGED <<csvVars, shipVars, pageVars, callVars, batchVars, orchVars>>

\* an iteration rejecting: GET /categories of findOrCreateCategory (line
\* 441), or the POST of createTransaction after the category was looked up
ClientCreateItemFails ==
  /\ psPc = "create"
  /\ ~psCall.dryRun
  /\ psIdx < Len(psCall.orderItems)
  /\ \/ /\ needsLookup(categoryCache, psCall.orderItems[psIdx + 1])
        /\ psRequests' = Append(psRequests, Request("GET", "/categories", 0, FALSE))
        /\ psFailure' = [request |-> "getCategories", item |-> psIdx + 1]
        /\ UNCHANGED <<psRemote, categoryCache>>
     \/ \E postOk \in (IF needsLookup(categoryCache, psCall.orderItems[psIdx + 1])
                        /\ categoryIdByTitle(psRemote.categories,
                                             psCall.orderItems[psIdx + 1].category) = 0
                       THEN BOOLEAN ELSE {TRUE}) :
        \E step \in { categoryStep(psRemote, categoryCache,
                                   psCall.orderItems[psIdx + 1], postOk) } :
          /\ categoryCache' = step.cache
          /\ psRemote' = step.remote
          /\ psRequests' = psRequests \o step.requests
               \o <<Request("POST", "/transaction_accounts/transactions", 0, FALSE)>>
          /\ psFailure' = [request |-> "createTransaction", item |-> psIdx + 1]
  /\ psPc' = "rejected"
  /\ UNCHANGED <<psCall, psIdx, psResult, amazonTransactions, dryRunResult>>
  /\ UNCHANGED <<csvVars, shipVars, pageVars, callVars, batchVars, orchVars>>

\* lines 565-570 and 655-660: the dry-run branch, then return result
ClientDryCreate ==
  /\ psPc = "create"
  /\ psCall.dryRun
  /\ psResult' = [psResult EXCEPT !.created = dryRunCreated(psCall.orderItems)]
  /\ psPc' = "returned"
  /\ UNCHANGED <<psRemote, psRequests, psCall, psIdx, categoryCache,
                 amazonTransactions, dryRunResult, psFailure>>
  /\ UNCHANGED <<csvVars, shipVars, pageVars, callVars, batchVars, orchVars>>

\* lines 570 and 660 after the loop: return result
ClientReturn ==
  /\ psPc = "create"
  /\ ~psCall.dryRun
  /\ psIdx = Len(psCall.orderItems)
  /\ psPc' = "returned"
  /\ UNCHANGED <<psRemote, psRequests, psCall, psIdx, psResult, categoryCache,
                 amazonTransactions, dryRunResult, psFailure>>
  /\ UNCHANGED <<csvVars, shipVars, pageVars, callVars, batchVars, orchVars>>

\* the call of a dry run made again with dryRun off, on the same account
ClientRunForReal ==
  /\ psPc = "returned"
  /\ psCall.dryRun
  /\ dryRunResult' = <<psResult>>
  /\ psCall' = [psCall EXCEPT !.dryRun = FALSE]
  /\ psRequests' = <<>>
  /\ psIdx' = 0
  /\ psPc' = (IF psCall.fn = "splitAmazonTransaction" THEN "delete" ELSE "find")
  /\ psResult' = [deleted |-> 0, created |-> 0]
  /\ categoryCache' = <<>>
  /\ amazonTransactions' = <<>>
  /\ UNCHANGED <<psRemote, psFailure>>
  /\ UNCHANGED <<csvVars, shipVars, pageVars, callVars, batchVars, orchVars>>

ClientNext ==
  \/ ClientDeleteOriginal
  \/ ClientDeleteOriginalFails
  \/ ClientFindExisting
  \/ ClientFindExistingFails
  \/ ClientDeleteExisting
  \/ ClientDeleteExistingFails
  \/ ClientCreateItem
  \/ ClientCreateItemFails
  \/ ClientDryCreate
  \/ ClientReturn
  \/ ClientRunForReal

ClientSpec == ClientInit /\ [][ClientNext]_vars

-----------------------------------------------------------------------------
(* Properties of the PocketSmith client                                    *)

\* a request that deletes or creates something
IsMutation(request) == request.method \in {"DELETE", "POST"}

AllRequestsOk == \A i \in 1..Len(psRequests) : psRequests[i].ok

\* the transactions of the account the calls created
CreatedTransactions ==
  SelectSeq(psRemote.transactions, LAMBDA t : t.id >= FirstNewId)

OriginalDeleted ==
  \A i \in 1..Len(psRemote.transactions) :
    psRemote.transactions[i].id # psCall.transaction.id

\* the i-th created transaction is the one of the i-th order item
CreatedForItem(i) ==
  /\ CreatedTransactions[i].payee
       = newTransaction(psCall.orderItems[i], <<>>, <<>>).payee
  /\ CreatedTransactions[i].amount
       = newTransaction(psCall.orderItems[i], <<>>, <<>>).amount
  /\ CreatedTransactions[i].note = psCall.orderItems[i].description

\* C29: during a call with dryRun set no DELETE and no POST is issued and
\* no step changes the transactions or the categories of the account; and
\* when the same call is then made without dryRun and returns with every
\* request answered successfully, its deleted and created counts are those
\* the dry run returned.
C29_DryRunIssuesNothingAndCountsAgree ==
  /\ [](psCall.dryRun => \A i \in 1..Len(psRequests) : ~IsMutation(psRequests[i]))
  /\ [][psCall.dryRun => psRemote' = psRemote]_vars
  /\ []((psPc = "returned" /\ ~psCall.dryRun /\ dryRunResult # <<>> /\ AllRequestsOk)
          => psResult = dryRunResult[1])

\* processAmazonOrderItems with deleteExisting: the dry run announced two
\* deletions and three creations, and the real run made them
C29_Witness ==
  /\ psPc = "returned"
  /\ psCall.fn = "processAmazonOrderItems"
  /\ ~psCall.dryRun
  /\ AllRequestsOk
  /\ dryRunResult = <<[deleted |-> 2, created |-> 3]>>
  /\ psResult = [deleted |-> 2, created |-> 3]
  /\ Len(CreatedTransactions) = 3
  /\ Len(SelectSeq(psRequests, LAMBDA r : r.method = "DELETE")) = 2

\* C30: in splitAmazonTransaction without dryRun, the first request is the
\* DELETE of the original and nothing is posted unless it succeeded; the
\* transactions created so far are those of the first items, in item order,
\* one per finished iteration; and when the iteration of the j-th item
\* rejects the call, the original is deleted and exactly the first j-1 item
\* transactions exist.
C30_DeleteFirstThenCreateInOrder ==
  (psCall.fn = "splitAmazonTransaction" /\ ~psCall.dryRun) =>
    /\ psRequests # <<>> =>
         /\ psRequests[1]
              = Request("DELETE", "/transactions", psCall.transaction.id,
                        psRequests[1].ok)
         /\ ~psRequests[1].ok => Len(psRequests) = 1
         /\ psRequests[1].ok => OriginalDeleted
    /\ Len(CreatedTransactions) = psIdx
    /\ \A i \in 1..Len(CreatedTransactions) : CreatedForItem(i)
    /\ (psPc = "rejected" /\ psFailure.item > 0) =>
         /\ OriginalDeleted
         /\ Len(CreatedTransactions) = psFailure.item - 1
         /\ psResult.created = psFailure.item - 1

\* creating the third item's transaction fails: the original is gone and
\* two item transactions exist
C30_Witness ==
  /\ psCall.fn = "splitAmazonTransaction"
  /\ ~psCall.dryRun
  /\ psPc = "rejected"
  /\ psFailure = [request |-> "createTransaction", item |-> 3]
  /\ OriginalDeleted
  /\ Len(CreatedTransactions) = 2
  /\ CreatedForItem(1) /\ CreatedForItem(2)
  /\ psCall.orderItems[1] # psCall.orderItems[2]

====
